---- MODULE Spec2Model ----
(***************************************************************************)
(* A state-machine model of the generic neighbour (address resolution)     *)
(* cache of net/core/neighbour.c: one neighbour table, its hash buckets,   *)
(* the reference-counted entries, the per-entry NUD timer, the pending     *)
(* packet queue and the garbage collectors.                                *)
(*                                                                         *)
(* Granularity: every action is one critical section of the code (the code *)
(* between taking and dropping tbl->lock or neigh->lock) or one lock-free   *)
(* stretch between two critical sections.  An operation that drops a lock  *)
(* in the middle (neigh_create, neigh_forced_gc, neigh_timer_handler,      *)
(* neigh_update) is a sequence of such actions with its position kept in   *)
(* ctx[p].pc or tmr[e].pc.                                                  *)
(***************************************************************************)
EXTENDS Integers, Sequences, FiniteSets, TLC

(***************************************************************************)
(* Bounds of the model.                                                    *)
(***************************************************************************)
MaxEntries == 2        \* slots of the entry cache (kmem_cache)
MaxProcs == 2          \* concurrent users of the table, each holding <= 1 reference
MaxDevs == 1           \* network devices
MaxKeys == 1           \* protocol addresses
MaxJiffies == 1        \* the clock stops here
MaxSkb == 3            \* packets (sk_buffs) ever handed to the cache
MaxAddr == 1           \* link-layer addresses
NEIGH_HASHMASK == 1    \* buckets 0..NEIGH_HASHMASK
HZ == 1                \* timer ticks per second
UcastProbes == 1       \* parms->ucast_probes
AppProbes == 0         \* parms->app_probes
McastProbes == 1       \* parms->mcast_probes
QueueLen == 1          \* parms->queue_len
RetransTime == 0       \* parms->retrans_time
BaseReachableTime == 1 \* parms->base_reachable_time
DelayProbeTime == 0    \* parms->delay_probe_time
GcStaleTime == 0       \* parms->gc_staletime
GcInterval == 0        \* tbl->gc_interval
GcThresh2 == 1         \* tbl->gc_thresh2
GcThresh3 == 1         \* tbl->gc_thresh3

MaxQueueLen == 2       \* parms->queue_len as unres_qlen can set it: 0..MaxQueueLen
MaxLeak == 1           \* references an entry may hold beyond its holders
MaxLiveSkb == 1        \* packets sent while resolution is followed to its end
MaxRetransTime == 1    \* parms->retrans_time as the sysctl can set it: 0..MaxRetransTime
MaxUpdateAddr == 2     \* link-layer addresses proposed to neigh_update in SpecUpdate
MaxThresh == 1         \* gc_thresh2 and gc_thresh3 as the sysctl may set them in SpecAlloc
MaxFlushJiffies == 6   \* the clock of SpecAlloc stops here, past last_flush + 5 * HZ
ProxyQlen == 1         \* parms->proxy_qlen
ProxyDelay == 2        \* parms->proxy_delay
MaxRandom == 1         \* net_random() in pneigh_enqueue: 0..MaxRandom
MaxProxyJiffies == 3   \* the clock of SpecProxy stops here
MaxTables == 2         \* tables on the neigh_tables list in SpecDump
MaxChain == 2          \* entries on one hash chain in SpecDump
MaxFamily == 2         \* address families 1..MaxFamily
MaxFill == 2           \* entries that fit one netlink message: 1..MaxFill
MaxDelayProbeTime == 2 \* parms->delay_probe_time as the sysctl can set it: 0..MaxDelayProbeTime
MaxTimerJiffies == 3   \* the clock of SpecTimer stops here
MaxProtocols == 2      \* protocols that cache a hardware header (hh->hh_type)
MaxIfdownDevs == 2     \* network devices of SpecIfdown
MaxCreators == 2       \* contexts that call neigh_create in SpecCount
MaxDrift == 1          \* SpecCount allocates while tbl->entries > -MaxDrift
MaxLockCtxs == 2       \* contexts (CPUs) of SpecLock

Slots == 1..MaxEntries
Procs == 1..MaxProcs
Devs == 1..MaxDevs
Keys == 1..MaxKeys
Addrs == 1..MaxAddr
Buckets == 0..NEIGH_HASHMASK
NULL == 0

(***************************************************************************)
(* NUD states (one bit each in the code; a state here is one name) and the *)
(* masks the code tests them against.                                      *)
(***************************************************************************)
NUD_NONE == "NONE"
NUD_INCOMPLETE == "INCOMPLETE"
NUD_REACHABLE == "REACHABLE"
NUD_STALE == "STALE"
NUD_DELAY == "DELAY"
NUD_PROBE == "PROBE"
NUD_FAILED == "FAILED"
NUD_NOARP == "NOARP"
NUD_PERMANENT == "PERMANENT"
NudStates == {NUD_NONE, NUD_INCOMPLETE, NUD_REACHABLE, NUD_STALE, NUD_DELAY,
              NUD_PROBE, NUD_FAILED, NUD_NOARP, NUD_PERMANENT}
NUD_IN_TIMER == {NUD_INCOMPLETE, NUD_REACHABLE, NUD_DELAY, NUD_PROBE}
NUD_VALID == {NUD_PERMANENT, NUD_NOARP, NUD_REACHABLE, NUD_PROBE, NUD_STALE, NUD_DELAY}
NUD_CONNECTED == {NUD_PERMANENT, NUD_NOARP, NUD_REACHABLE}

\* errno values returned by the code
ENOBUFS == 105
EINVAL == 22
EPERM == 1

\* neigh_update flags
NEIGH_UPDATE_F_OVERRIDE == "OVERRIDE"
NEIGH_UPDATE_F_WEAK_OVERRIDE == "WEAK_OVERRIDE"
NEIGH_UPDATE_F_OVERRIDE_ISROUTER == "OVERRIDE_ISROUTER"
NEIGH_UPDATE_F_ISROUTER == "ISROUTER"
NEIGH_UPDATE_F_ADMIN == "ADMIN"

VARIABLES
  jiffies,   \* the clock
  tbl,       \* struct neigh_table: hash_buckets, entries, last_flush, gc_thresh2/3, parms
  neigh,     \* slot -> struct neighbour (alloc = FALSE: the slot is free memory)
  ctx,       \* user context -> its position in a running operation, its held reference, its last result
  tmr,       \* slot -> the position of the entry's running timer handler
  net        \* the packets: next fresh packet, transmitted, error-reported and freed ones;
             \* the netlink dump: the tables it walks, its cursor, the entries emitted

vars == <<jiffies, tbl, neigh, ctx, tmr, net>>

(***************************************************************************)
(* Helpers on sequences.                                                   *)
(***************************************************************************)
Range(s) == {s[i] : i \in 1..Len(s)}

RECURSIVE SeqRemove(_, _)
SeqRemove(s, x) ==
  IF s = <<>> THEN <<>>
  ELSE IF Head(s) = x THEN Tail(s)
  ELSE <<Head(s)>> \o SeqRemove(Tail(s), x)

RECURSIVE SeqFilter(_, _)
SeqFilter(s, keep) ==
  IF s = <<>> THEN <<>>
  ELSE IF Head(s) \in keep THEN <<Head(s)>> \o SeqFilter(Tail(s), keep)
  ELSE SeqFilter(Tail(s), keep)

(***************************************************************************)
(* The memory of a free slot (canonical contents) and the idle contexts.   *)
(***************************************************************************)
FreeNeigh ==
  [alloc |-> FALSE, key |-> NULL, dev |-> NULL, refcnt |-> 0, dead |-> 0,
   nud_state |-> NUD_NONE, probes |-> 0, arp_queue |-> <<>>,
   output |-> "neigh_blackhole", used |-> 0, confirmed |-> 0, updated |-> 0,
   ha |-> NULL, flags |-> 0, timer |-> FALSE, expires |-> 0,
   \* neigh->hh: the cached hardware headers, the newest first
   hh |-> <<>>,
   \* history: the calls of neigh_timer_handler that found the entry in the
   \* INCOMPLETE or PROBE state it has been in since it entered it
   fired |-> 0]

IdleCtx ==
  [pc |-> "idle", n |-> NULL, key |-> NULL, dev |-> NULL, i |-> 0,
   shrunk |-> 0, now |-> 0, skb |-> NULL, flags |-> {}, update_isrouter |-> FALSE,
   ref |-> NULL, rc |-> 0]

IdleTmr == [pc |-> "idle", next |-> 0, skb |-> NULL]

\* tbl->hash(pkey, dev) & NEIGH_HASHMASK
hash(pkey, dev) == (pkey + dev) % (NEIGH_HASHMASK + 1)

\* the entries linked in the table's chains
Linked == UNION {Range(tbl.hash_buckets[b]) : b \in Buckets}

time_after(a, b) == a > b
time_before(a, b) == a < b
time_before_eq(a, b) == a <= b

(***************************************************************************)
(* Reference counting and destruction.                                     *)
(***************************************************************************)
\* neigh_destroy: the memory after the call.  An entry that is not dead is
\* left as it is (the "Destroying alive neighbour" warning); otherwise the
\* timer is deleted, the queue purged and the slot returned to the cache.
neigh_destroy(n) ==
  IF n.dead = 0 THEN n ELSE FreeNeigh

neigh_hold(N, e) == [N EXCEPT ![e].refcnt = @ + 1]

\* neigh_release: atomic_dec_and_test(&neigh->refcnt), then neigh_destroy
neigh_release(N, e) ==
  LET n1 == [N[e] EXCEPT !.refcnt = @ - 1]
  IN  [N EXCEPT ![e] = IF n1.refcnt = 0 THEN neigh_destroy(n1) ELSE n1]

RECURSIVE ReleaseAll(_, _)
ReleaseAll(N, s) ==
  IF s = <<>> THEN N ELSE ReleaseAll(neigh_release(N, Head(s)), Tail(s))

\* the slots whose memory was returned to the cache between N and N2
FreedSlots(N, N2) == {e \in Slots : N[e].alloc /\ ~N2[e].alloc}

\* the packets that were on the queues of the entries freed between N and N2
PurgedSkbs(N, N2) == UNION {Range(N[e].arp_queue) : e \in FreedSlots(N, N2)}

\* tbl->entries-- once per destroyed entry
EntriesAfter(N, N2) == tbl.entries - Cardinality(FreedSlots(N, N2))

(***************************************************************************)
(* neigh_lookup: one read-locked scan of the key's chain.                  *)
(***************************************************************************)
Match(N, b, pkey, dev) ==
  LET c == tbl.hash_buckets[b]
      hits == {i \in 1..Len(c) : N[c[i]].dev = dev /\ N[c[i]].key = pkey}
  IN  IF hits = {} THEN NULL
      ELSE c[CHOOSE i \in hits : \A j \in hits : i <= j]

\* a neigh_lookup that returns the entry it found without holding it
neigh_lookup_unheld(p, pkey, dev) ==
  /\ ctx[p].pc = "idle"
  /\ ctx[p].ref = NULL
  /\ ctx' = [ctx EXCEPT ![p].ref = Match(neigh, hash(pkey, dev), pkey, dev), ![p].rc = 0]
  /\ UNCHANGED <<jiffies, tbl, neigh, tmr, net>>

neigh_lookup(p, pkey, dev) ==
  /\ ctx[p].pc = "idle"
  /\ ctx[p].ref = NULL
  /\ LET n == Match(neigh, hash(pkey, dev), pkey, dev)
     IN  /\ neigh' = IF n = NULL THEN neigh ELSE neigh_hold(neigh, n)
         /\ ctx' = [ctx EXCEPT ![p].ref = n, ![p].rc = 0]
  /\ UNCHANGED <<jiffies, tbl, tmr, net>>

\* a user drops the reference it holds
neigh_put(p) ==
  /\ ctx[p].pc = "idle"
  /\ ctx[p].ref # NULL
  /\ LET N2 == neigh_release(neigh, ctx[p].ref)
     IN  /\ neigh' = N2
         /\ tbl' = [tbl EXCEPT !.entries = EntriesAfter(neigh, N2)]
         /\ net' = [net EXCEPT !.freed = @ \cup PurgedSkbs(neigh, N2)]
  /\ ctx' = [ctx EXCEPT ![p].ref = NULL, ![p].rc = 0]
  /\ UNCHANGED <<jiffies, tmr>>

(***************************************************************************)
(* neigh_forced_gc: one bucket per critical section.                       *)
(***************************************************************************)
\* an eviction test without the grace of INCOMPLETE entries
ForcedGcEvictsUnreferenced(n) ==
  /\ n.refcnt = 1
  /\ n.nud_state # NUD_PERMANENT

\* the eviction test of neigh_forced_gc
ForcedGcEvicts(n) ==
  /\ n.refcnt = 1
  /\ n.nud_state # NUD_PERMANENT
  /\ (n.nud_state # NUD_INCOMPLETE
      \/ time_after(jiffies, n.used + tbl.parms.retrans_time))

neigh_forced_gc(p) ==
  /\ ctx[p].pc = "forced_gc"
  /\ LET b == ctx[p].i
         c == tbl.hash_buckets[b]
         gone == {e \in Range(c) : ForcedGcEvicts(neigh[e])}
         N1 == [e \in Slots |-> IF e \in gone THEN [neigh[e] EXCEPT !.dead = 1]
                                ELSE neigh[e]]
         N2 == ReleaseAll(N1, SeqFilter(c, gone))
     IN  /\ neigh' = N2
         /\ tbl' = [tbl EXCEPT !.hash_buckets[b] = SeqFilter(c, Range(c) \ gone),
                               !.entries = EntriesAfter(neigh, N2)]
         /\ net' = [net EXCEPT !.freed = @ \cup PurgedSkbs(neigh, N2)]
         /\ ctx' = [ctx EXCEPT ![p].i = b + 1,
                               ![p].shrunk = IF gone # {} THEN 1 ELSE @,
                               ![p].pc = IF b = NEIGH_HASHMASK THEN "alloc" ELSE @]
  /\ UNCHANGED <<jiffies, tmr>>
(***************************************************************************)
(* neigh_alloc and neigh_create.                                           *)
(***************************************************************************)
\* a threshold test that collects while the last flush is recent
NeedForcedGcRecent ==
  /\ tbl.entries > tbl.gc_thresh2
  /\ \/ ~time_after(jiffies, tbl.last_flush + 5 * HZ)
     \/ tbl.entries > tbl.gc_thresh3

\* the test that sends neigh_alloc into neigh_forced_gc
NeedForcedGc ==
  \/ tbl.entries > tbl.gc_thresh3
  \/ (tbl.entries > tbl.gc_thresh2 /\ time_after(jiffies, tbl.last_flush + 5 * HZ))

\* the slot kmem_cache_alloc hands out
FreeSlot(N) == CHOOSE e \in Slots : ~N[e].alloc /\ \A f \in Slots : ~N[f].alloc => e <= f

\* neigh_alloc from kmem_cache_alloc on, then neigh_create up to the table
\* lock: the new entry is private to the caller.  mem: the cache has memory;
\* cerr, serr: the results of tbl->constructor and parms->neigh_setup.
AllocAndSetup(p, pkey, dev, now, T, mem, cerr, serr) ==
  IF ~mem \/ \A e \in Slots : neigh[e].alloc
  THEN /\ ctx' = [ctx EXCEPT ![p] = [IdleCtx EXCEPT !.rc = -ENOBUFS]]
       /\ tbl' = T
       /\ UNCHANGED neigh
  ELSE LET e == FreeSlot(neigh)
           n == [FreeNeigh EXCEPT !.alloc = TRUE, !.updated = now, !.used = now,
                                  !.nud_state = NUD_NONE, !.output = "neigh_blackhole",
                                  !.refcnt = 1, !.dead = 1, !.key = pkey, !.dev = dev]
       IN  IF cerr < 0 \/ serr < 0
           THEN \* out_neigh_release: the entry is released, hence destroyed
                /\ neigh' = neigh_release([neigh EXCEPT ![e] = n], e)
                /\ tbl' = T
                /\ ctx' = [ctx EXCEPT ![p] = [IdleCtx EXCEPT
                                               !.rc = IF cerr < 0 THEN cerr ELSE serr]]
           ELSE /\ neigh' = [neigh EXCEPT ![e] =
                       [n EXCEPT !.confirmed = jiffies - 2 * tbl.parms.base_reachable_time]]
                /\ tbl' = [T EXCEPT !.entries = @ + 1]
                /\ ctx' = [ctx EXCEPT ![p] = [IdleCtx EXCEPT !.pc = "link", !.n = e,
                                               !.key = pkey, !.dev = dev]]

\* neigh_create, entry: neigh_alloc's threshold test; without pressure the
\* entry is allocated and set up at once
neigh_create(p, pkey, dev, mem, cerr, serr) ==
  /\ ctx[p].pc = "idle"
  /\ ctx[p].ref = NULL
  /\ IF NeedForcedGc
     THEN /\ ctx' = [ctx EXCEPT ![p] = [IdleCtx EXCEPT !.pc = "forced_gc", !.key = pkey,
                                         !.dev = dev, !.now = jiffies]]
          /\ UNCHANGED <<tbl, neigh>>
     ELSE AllocAndSetup(p, pkey, dev, jiffies, tbl, mem, cerr, serr)
  /\ UNCHANGED <<jiffies, tmr, net>>

\* neigh_alloc after neigh_forced_gc returned: last_flush, the hard limit,
\* the allocation
neigh_alloc(p, mem, cerr, serr) ==
  /\ ctx[p].pc = "alloc"
  /\ LET T == [tbl EXCEPT !.last_flush = jiffies]
     IN  IF ctx[p].shrunk = 0 /\ tbl.entries > tbl.gc_thresh3
         THEN /\ ctx' = [ctx EXCEPT ![p] = [IdleCtx EXCEPT !.rc = -ENOBUFS]]
              /\ tbl' = T
              /\ UNCHANGED neigh
         ELSE AllocAndSetup(p, ctx[p].key, ctx[p].dev, ctx[p].now, T, mem, cerr, serr)
  /\ UNCHANGED <<jiffies, tmr, net>>

\* neigh_create without pressure on the table, up to the middle of
\* "tbl->entries++" (line 281): the entry is allocated and initialised and
\* the counter has been read; tbl->entries is a plain int that neigh_alloc
\* changes without a lock, so other contexts run between the read and the
\* write
neigh_alloc_load(p, pkey, dev) ==
  /\ ctx[p].pc = "idle"
  /\ ctx[p].ref = NULL
  /\ ~NeedForcedGc
  /\ tbl.entries > -MaxDrift
  /\ \E e \in Slots : ~neigh[e].alloc
  /\ LET e == FreeSlot(neigh)
         n == [FreeNeigh EXCEPT !.alloc = TRUE, !.updated = jiffies, !.used = jiffies,
                                !.nud_state = NUD_NONE, !.output = "neigh_blackhole",
                                !.key = pkey, !.dev = dev]
     IN  /\ neigh' = [neigh EXCEPT ![e] = n]
         /\ ctx' = [ctx EXCEPT ![p] = [IdleCtx EXCEPT !.pc = "entries_store", !.n = e,
                                         !.key = pkey, !.dev = dev, !.i = tbl.entries]]
  /\ UNCHANGED <<jiffies, tbl, tmr, net>>

\* the write of "tbl->entries++" and the rest of neigh_alloc and of
\* neigh_create up to the table lock, constructor and neigh_setup succeeding
neigh_alloc_store(p) ==
  /\ ctx[p].pc = "entries_store"
  /\ tbl' = [tbl EXCEPT !.entries = ctx[p].i + 1]
  /\ neigh' = [neigh EXCEPT ![ctx[p].n] =
                 [@ EXCEPT !.refcnt = 1, !.dead = 1,
                           !.confirmed = jiffies - 2 * tbl.parms.base_reachable_time]]
  /\ ctx' = [ctx EXCEPT ![p].pc = "link", ![p].i = 0]
  /\ UNCHANGED <<jiffies, tmr, net>>

\* a neigh_create that links without searching the chain again
CreateNoRescan(N, b, pkey, dev) == NULL

\* neigh_create under the write lock: the search of the chain for an entry
\* that a concurrent creator linked in the meantime
CreateRescan(N, b, pkey, dev) == Match(N, b, pkey, dev)

\* a neigh_create that returns the entry it found without holding it
CreateFoundNoHold(N, n1, n) == neigh_release(N, n)

\* neigh_create, the entry n1 was found: it is held for the caller and the
\* caller's own entry n released (out_neigh_release)
CreateFound(N, n1, n) == neigh_release(neigh_hold(N, n1), n)

\* a neigh_create that returns -EINVAL for dead parameters without
\* releasing the entry it allocated
neigh_create_link_unreleased(p) ==
  /\ ctx[p].pc = "link"
  /\ tbl.parms.dead
  /\ ctx' = [ctx EXCEPT ![p] = [IdleCtx EXCEPT !.rc = -EINVAL]]
  /\ UNCHANGED <<jiffies, tbl, neigh, tmr, net>>

\* neigh_create under the table write lock: the parameters are checked, the
\* chain is searched again, and the entry is linked or given up
neigh_create_link(p) ==
  /\ ctx[p].pc = "link"
  /\ LET n == ctx[p].n
         pkey == ctx[p].key
         dev == ctx[p].dev
         b == hash(pkey, dev)
         n1 == CreateRescan(neigh, b, pkey, dev)
     IN  IF tbl.parms.dead
         THEN LET N2 == neigh_release(neigh, n)
              IN  /\ neigh' = N2
                  /\ tbl' = [tbl EXCEPT !.entries = EntriesAfter(neigh, N2)]
                  /\ ctx' = [ctx EXCEPT ![p] = [IdleCtx EXCEPT !.rc = -EINVAL]]
         ELSE IF n1 # NULL
         THEN LET N2 == CreateFound(neigh, n1, n)
              IN  /\ neigh' = N2
                  /\ tbl' = [tbl EXCEPT !.entries = EntriesAfter(neigh, N2)]
                  /\ ctx' = [ctx EXCEPT ![p] = [IdleCtx EXCEPT !.ref = n1]]
         ELSE /\ neigh' = neigh_hold([neigh EXCEPT ![n].dead = 0], n)
              /\ tbl' = [tbl EXCEPT !.hash_buckets[b] = <<n>> \o @]
              /\ ctx' = [ctx EXCEPT ![p] = [IdleCtx EXCEPT !.ref = n]]
  /\ UNCHANGED <<jiffies, tmr, net>>

\* neigh_parms_release: under the table write lock the parameter block of
\* the device is taken off the table's list and marked dead.  tbl.parms is
\* the block the entries point to (n->parms): the device's block, from
\* neigh_parms_alloc, which the constructor attaches; the table's own
\* default block is never released (line 1183)
neigh_parms_release ==
  /\ ~tbl.parms.dead
  /\ tbl' = [tbl EXCEPT !.parms.dead = TRUE]
  /\ UNCHANGED <<jiffies, neigh, ctx, tmr, net>>

(***************************************************************************)
(* The proxy queue: tbl->proxy_queue holds the delayed packets, each with  *)
(* its due time (stamp) and device; tbl->proxy_timer runs                  *)
(* neigh_proxy_process.                                                    *)
(***************************************************************************)
\* pneigh_enqueue up to the queue lock: the due time is drawn, the length of
\* the queue is tested without the lock; rnd is net_random()
pneigh_enqueue(p, dev, rnd) ==
  /\ ctx[p].pc = "idle"
  /\ ~net.oops
  /\ net.nskb <= MaxSkb
  /\ LET skb == net.nskb
         sched_next == jiffies + (rnd % tbl.parms.proxy_delay)
     IN  IF Len(tbl.proxy_queue) > tbl.parms.proxy_qlen
         THEN /\ net' = [net EXCEPT !.nskb = @ + 1, !.freed = @ \cup {skb}]
              /\ UNCHANGED ctx
         ELSE /\ net' = [net EXCEPT !.nskb = @ + 1]
              /\ ctx' = [ctx EXCEPT ![p].pc = "proxy_queue", ![p].skb = skb,
                                    ![p].dev = dev, ![p].now = sched_next]
  /\ UNCHANGED <<jiffies, tbl, neigh, tmr>>

\* pneigh_enqueue under proxy_queue.lock: the packet joins the tail and the
\* timer is set to the earlier of its old expiry and the packet's due time
pneigh_enqueue_locked(p) ==
  /\ ctx[p].pc = "proxy_queue"
  /\ LET t == tbl.proxy_timer
         sched_next == IF t.pending /\ time_before(t.expires, ctx[p].now)
                       THEN t.expires ELSE ctx[p].now
     IN  tbl' = [tbl EXCEPT
                   !.proxy_queue = Append(@, [skb |-> ctx[p].skb, stamp |-> ctx[p].now,
                                              dev |-> ctx[p].dev]),
                   !.proxy_timer = [@ EXCEPT !.pending = TRUE, !.expires = sched_next]]
  /\ ctx' = [ctx EXCEPT ![p].pc = "idle", ![p].skb = NULL, ![p].dev = NULL, ![p].now = 0]
  /\ UNCHANGED <<jiffies, neigh, tmr, net>>

\* the proxy timer expires: the timer code takes it off the pending list and
\* calls neigh_proxy_process, which reads now = jiffies and waits for
\* proxy_queue.lock
proxy_timer_expire ==
  /\ tbl.proxy_timer.pending
  /\ ~tbl.proxy_timer.running
  /\ ~time_before(jiffies, tbl.proxy_timer.expires)
  /\ tbl' = [tbl EXCEPT !.proxy_timer = [@ EXCEPT !.pending = FALSE, !.running = TRUE,
                                                  !.now = jiffies]]
  /\ UNCHANGED <<jiffies, neigh, ctx, tmr, net>>

\* the least positive number of a set of numbers, 0 if there is none
SchedNext(S) ==
  IF \E x \in S : x > 0
  THEN CHOOSE x \in S : x > 0 /\ \A y \in S : y > 0 => x <= y
  ELSE 0

RECURSIVE SkbsOf(_)
SkbsOf(q) == IF q = <<>> THEN <<>> ELSE <<Head(q).skb>> \o SkbsOf(Tail(q))

\* neigh_proxy_process under proxy_queue.lock: the packets that were due at
\* now leave the queue, to tbl->proxy_redo if their device is running (up)
\* and to kfree_skb otherwise; the timer is set sched_next after the present
\* jiffies
neigh_proxy_process(up) ==
  /\ tbl.proxy_timer.running
  /\ LET now == tbl.proxy_timer.now
         q == tbl.proxy_queue
         due == {i \in 1..Len(q) : q[i].stamp - now <= 0}
         late == SeqFilter(q, {x \in Range(q) : x.stamp - now > 0})
         redo == SeqFilter(q, {q[i] : i \in {j \in due : q[j].dev \in up}})
         drop == {q[i].skb : i \in {j \in due : q[j].dev \notin up}}
         sched_next == SchedNext({x.stamp - now : x \in Range(q)})
     IN  /\ tbl' = [tbl EXCEPT
                      !.proxy_queue = late,
                      !.proxy_timer = [pending |-> sched_next # 0,
                                       expires |-> IF sched_next # 0
                                                   THEN jiffies + sched_next ELSE @.expires,
                                       running |-> FALSE, now |-> 0]]
         /\ net' = [net EXCEPT !.redone = @ \o SkbsOf(redo), !.freed = @ \cup drop]
  /\ UNCHANGED <<jiffies, neigh, ctx, tmr>>

(***************************************************************************)
(* The netlink dump.  net.dump.neigh_tables is the neigh_tables list, each *)
(* table with its family and its hash chains; args is cb->args; emitted    *)
(* is what the messages of the calls so far carry, calls their number,     *)
(* done that the last call returned an empty message.                      *)
(***************************************************************************)
\* the inner loop of neigh_dump_table over one chain, from position idx:
\* entries before s_idx are skipped, neigh_fill_info fails when the message
\* has no room left
RECURSIVE DumpChain(_, _, _, _, _)
DumpChain(chain, idx, s_idx, room, skb) ==
  IF idx >= Len(chain) THEN [rc |-> 0, idx |-> idx, room |-> room, skb |-> skb]
  ELSE IF idx < s_idx THEN DumpChain(chain, idx + 1, s_idx, room, skb)
  ELSE IF room = 0 THEN [rc |-> -1, idx |-> idx, room |-> room, skb |-> skb]
  ELSE DumpChain(chain, idx + 1, s_idx, room - 1, Append(skb, chain[idx + 1]))

\* the position at which the walk of bucket h starts
StartIdxKept(h, s_h, s_idx) == s_idx

StartIdx(h, s_h, s_idx) == IF h > s_h THEN 0 ELSE s_idx

\* the outer loop of neigh_dump_table from bucket h
RECURSIVE DumpBuckets(_, _, _, _, _, _, _)
DumpBuckets(buckets, h, s_h, s_idx, idx, room, skb) ==
  IF h > NEIGH_HASHMASK
  THEN [rc |-> Len(skb), h |-> h, idx |-> idx, room |-> room, skb |-> skb]
  ELSE IF h < s_h THEN DumpBuckets(buckets, h + 1, s_h, s_idx, idx, room, skb)
  ELSE LET s == StartIdx(h, s_h, s_idx)
           r == DumpChain(buckets[h], 0, s, room, skb)
       IN  IF r.rc < 0
           THEN [rc |-> -1, h |-> h, idx |-> r.idx, room |-> r.room, skb |-> r.skb]
           ELSE DumpBuckets(buckets, h + 1, s_h, s, r.idx, r.room, r.skb)

\* neigh_dump_table: the result, with cb->args[1] and cb->args[2] saved
neigh_dump_table(t, skb, room, args) ==
  LET r == DumpBuckets(t.hash_buckets, 0, args[1], args[2], args[2], room, skb)
  IN  [rc |-> r.rc, room |-> r.room, skb |-> r.skb,
       args |-> [args EXCEPT ![1] = r.h, ![2] = r.idx]]

\* the loop of neigh_dump_info from table t
RECURSIVE DumpTables(_, _, _, _, _, _, _)
DumpTables(tables, t, s_t, family, args, skb, room) ==
  IF t >= Len(tables) THEN [t |-> t, args |-> args, skb |-> skb]
  ELSE IF t < s_t \/ (family # 0 /\ tables[t + 1].family # family)
  THEN DumpTables(tables, t + 1, s_t, family, args, skb, room)
  ELSE LET a == IF t > s_t THEN [args EXCEPT ![1] = 0, ![2] = 0] ELSE args
           r == neigh_dump_table(tables[t + 1], skb, room, a)
       IN  IF r.rc < 0 THEN [t |-> t, args |-> r.args, skb |-> r.skb]
           ELSE DumpTables(tables, t + 1, s_t, family, r.args, r.skb, r.room)

\* neigh_dump_info: one call of the dump with a fresh message that has room
\* for cap entries; netlink calls again until a call returns an empty message
neigh_dump_info(cap) ==
  /\ ~net.dump.done
  /\ LET d == net.dump
         r == DumpTables(d.neigh_tables, 0, d.args[0], d.family, d.args, <<>>, cap)
     IN  net' = [net EXCEPT !.dump = [d EXCEPT !.args = [r.args EXCEPT ![0] = r.t],
                                               !.emitted = @ \o r.skb,
                                               !.calls = @ + 1,
                                               !.done = (r.skb = <<>>)]]
  /\ UNCHANGED <<jiffies, tbl, neigh, ctx, tmr>>

(***************************************************************************)
(* The clock.                                                              *)
(***************************************************************************)
Tick(max) ==
  /\ ~net.oops
  /\ jiffies < max
  /\ jiffies' = jiffies + 1
  /\ UNCHANGED <<tbl, neigh, ctx, tmr, net>>
(***************************************************************************)
(* The per-entry timer.                                                    *)
(***************************************************************************)
\* the holders of a reference to entry e: the table while e is linked, the
\* users and creators, the pending timer, the running handler
Holders(e) ==
  (IF e \in Linked THEN 1 ELSE 0)
  + Cardinality({p \in Procs : ctx[p].ref = e \/ (ctx[p].pc = "link" /\ ctx[p].n = e)})
  + (IF neigh[e].timer THEN 1 ELSE 0)
  + (IF tmr[e].pc # "idle" THEN 1 ELSE 0)

\* the references nobody holds stay within the model's bound
LeakBounded == \A e \in Slots : neigh[e].alloc => neigh[e].refcnt <= Holders(e) + MaxLeak

\* a timer armed without a reference taken for it
ArmTimerUnheld(n, t) == [n EXCEPT !.timer = TRUE, !.expires = t]

\* neigh_hold; neigh->timer.expires = t; add_timer(&neigh->timer).  A timer
\* that is already pending is queued once, for the new time.
ArmTimer(n, t) == [n EXCEPT !.refcnt = @ + 1, !.timer = TRUE, !.expires = t]

\* a neigh_del_timer that drops the timer's reference whether or not
\* del_timer found the timer pending
neigh_del_timer_unchecked(N, e) ==
  IF N[e].nud_state \in NUD_IN_TIMER
  THEN neigh_release([N EXCEPT ![e].timer = FALSE, ![e].expires = 0], e)
  ELSE N

\* neigh_del_timer: a pending timer of an entry in a timer state is deleted
\* and the reference it held is released
neigh_del_timer(N, e) ==
  IF N[e].nud_state \in NUD_IN_TIMER /\ N[e].timer
  THEN neigh_release([N EXCEPT ![e].timer = FALSE, ![e].expires = 0], e)
  ELSE N

\* a probe budget that counts multicast probes in every state
neigh_max_probes_all(n) ==
  tbl.parms.ucast_probes + tbl.parms.app_probes + tbl.parms.mcast_probes

neigh_max_probes(n) ==
  IF n.nud_state = NUD_PROBE
  THEN tbl.parms.ucast_probes
  ELSE tbl.parms.ucast_probes + tbl.parms.app_probes + tbl.parms.mcast_probes

\* for (hh = neigh->hh; hh; hh = hh->hh_next) hh->hh_output = out
SetHhOutput(n, out) ==
  IF n.hh = <<>> THEN n
  ELSE [n EXCEPT !.hh = [i \in 1..Len(n.hh) |-> [n.hh[i] EXCEPT !.hh_output = out]]]

\* neigh_suspect / neigh_connect: the output path of the entry
neigh_suspect(n) ==
  SetHhOutput([n EXCEPT !.output = "neigh_resolve_output"], "neigh_resolve_output")
\* a neigh_connect that installs nothing
neigh_connect_none(n) == n

neigh_connect(n) ==
  SetHhOutput([n EXCEPT !.output = "neigh_connected_output"], "dev_queue_xmit")

(***************************************************************************)
(* __neigh_event_send: one critical section on neigh->lock.  The result is *)
(* the entry after the call, the return code, the packets freed, and       *)
(* whether the code unlinked and freed the head of an empty queue (the     *)
(* queue is empty and parms->queue_len is 0), which is undefined.          *)
(***************************************************************************)
\* __neigh_event_send's test for "no way to solicit"
NoSolicit == tbl.parms.mcast_probes + tbl.parms.app_probes = 0

\* an __neigh_event_send that starts a resolution whatever the state of
\* the entry
EventSendAnyState(n, skb) ==
  [n |-> ArmTimer([n EXCEPT !.probes = tbl.parms.ucast_probes,
                            !.nud_state = NUD_INCOMPLETE, !.fired = 0],
                  jiffies + 1),
   rc |-> 1, freed |-> {}, undef |-> FALSE]

EventSend(n, skb) ==
  IF n.nud_state \in (NUD_CONNECTED \cup {NUD_DELAY, NUD_PROBE})
  THEN [n |-> n, rc |-> 0, freed |-> {}, undef |-> FALSE]
  ELSE
    LET n1 ==
          IF n.nud_state \notin {NUD_STALE, NUD_INCOMPLETE}
          THEN IF ~NoSolicit
               THEN ArmTimer([n EXCEPT !.probes = tbl.parms.ucast_probes,
                                       !.nud_state = NUD_INCOMPLETE, !.fired = 0],
                             jiffies + 1)
               ELSE [n EXCEPT !.nud_state = NUD_FAILED]
          ELSE IF n.nud_state = NUD_STALE
          THEN ArmTimer([n EXCEPT !.nud_state = NUD_DELAY],
                        jiffies + tbl.parms.delay_probe_time)
          ELSE n
    IN  IF n1.nud_state = NUD_FAILED
        THEN \* no way to solicit: the packet is freed, 1 is returned
             [n |-> n1, rc |-> 1, freed |-> {skb} \ {NULL}, undef |-> FALSE]
        ELSE IF n1.nud_state = NUD_INCOMPLETE
        THEN IF skb = NULL
             THEN [n |-> n1, rc |-> 1, freed |-> {}, undef |-> FALSE]
             ELSE IF Len(n1.arp_queue) >= tbl.parms.queue_len
             THEN IF n1.arp_queue = <<>>
                  THEN [n |-> [n1 EXCEPT !.arp_queue = <<skb>>], rc |-> 1,
                        freed |-> {}, undef |-> TRUE]
                  ELSE [n |-> [n1 EXCEPT !.arp_queue = Append(Tail(@), skb)], rc |-> 1,
                        freed |-> {Head(n1.arp_queue)}, undef |-> FALSE]
             ELSE [n |-> [n1 EXCEPT !.arp_queue = Append(@, skb)], rc |-> 1,
                   freed |-> {}, undef |-> FALSE]
        ELSE [n |-> n1, rc |-> 0, freed |-> {}, undef |-> FALSE]

\* the packet a sender hands over: none, or the next fresh sk_buff
SendSkbs == {NULL} \cup (IF net.nskb <= MaxSkb THEN {net.nskb} ELSE {})

\* the kernel after an oops: every context and every handler stops
Halt(C) == [q \in Procs |-> [C[q] EXCEPT !.pc = "oops"]]

\* a user holding a reference calls __neigh_event_send(neigh, skb); oops: the
\* build's outcome where freeing the queue head brings the kernel down
__neigh_event_send(p, skb, oops) ==
  /\ ctx[p].pc = "idle"
  /\ ctx[p].ref # NULL
  /\ skb \in SendSkbs
  /\ LET e == ctx[p].ref
         r == EventSend(neigh[e], skb)
         C == [ctx EXCEPT ![p].rc = r.rc, ![p].skb = skb]
     IN  /\ neigh' = [neigh EXCEPT ![e] = r.n]
         /\ ctx' = IF r.undef /\ oops THEN Halt(C) ELSE C
         /\ net' = [net EXCEPT !.nskb = IF skb = NULL THEN @ ELSE @ + 1,
                               !.freed = @ \cup r.freed,
                               !.oops = @ \/ (r.undef /\ oops)]
  /\ UNCHANGED <<jiffies, tbl, tmr>>
  /\ LeakBounded'
(***************************************************************************)
(* neigh_timer_handler.  The kernel takes the timer off its list and calls *)
(* the handler, which waits for neigh->lock (timer_expire); the handler's  *)
(* first critical section (neigh_timer_handler); one error_report call and *)
(* the critical section after it (neigh_timer_report); the solicitation    *)
(* made after the lock was dropped (neigh_timer_solicit).                  *)
(***************************************************************************)
timer_expire(e) ==
  /\ ~net.oops
  /\ neigh[e].alloc
  /\ neigh[e].timer
  /\ jiffies >= neigh[e].expires
  /\ tmr[e].pc = "idle"
  /\ neigh' = [neigh EXCEPT ![e].timer = FALSE, ![e].expires = 0]
  /\ tmr' = [tmr EXCEPT ![e].pc = "run"]
  /\ UNCHANGED <<jiffies, tbl, ctx, net>>

\* a transition that sends every REACHABLE entry whose window has elapsed
\* to DELAY
TimerTransitionDelay(n) ==
  LET now == jiffies
      P == tbl.parms
  IN  IF n.nud_state = NUD_REACHABLE
      THEN IF time_before_eq(now, n.confirmed + P.reachable_time)
           THEN [n |-> n, next |-> n.confirmed + P.reachable_time]
           ELSE [n |-> neigh_suspect([n EXCEPT !.nud_state = NUD_DELAY]),
                 next |-> now + P.delay_probe_time]
      ELSE IF n.nud_state = NUD_DELAY
      THEN IF time_before_eq(now, n.confirmed + P.delay_probe_time)
           THEN [n |-> neigh_connect([n EXCEPT !.nud_state = NUD_REACHABLE]),
                 next |-> n.confirmed + P.reachable_time]
           ELSE [n |-> [n EXCEPT !.nud_state = NUD_PROBE, !.probes = 0, !.fired = 0],
                 next |-> now + P.retrans_time]
      ELSE [n |-> n, next |-> now + P.retrans_time]

\* the state transition of the handler, before the probe budget is tested:
\* the entry and the handler's "next"
TimerTransition(n) ==
  LET now == jiffies
      P == tbl.parms
  IN  IF n.nud_state = NUD_REACHABLE
      THEN IF time_before_eq(now, n.confirmed + P.reachable_time)
           THEN [n |-> n, next |-> n.confirmed + P.reachable_time]
           ELSE IF time_before_eq(now, n.used + P.delay_probe_time)
           THEN [n |-> neigh_suspect([n EXCEPT !.nud_state = NUD_DELAY]),
                 next |-> now + P.delay_probe_time]
           ELSE [n |-> neigh_suspect([n EXCEPT !.nud_state = NUD_STALE]),
                 next |-> now + HZ]
      ELSE IF n.nud_state = NUD_DELAY
      THEN IF time_before_eq(now, n.confirmed + P.delay_probe_time)
           THEN [n |-> neigh_connect([n EXCEPT !.nud_state = NUD_REACHABLE]),
                 next |-> n.confirmed + P.reachable_time]
           ELSE [n |-> [n EXCEPT !.nud_state = NUD_PROBE, !.probes = 0, !.fired = 0],
                 next |-> now + P.retrans_time]
      ELSE [n |-> n, next |-> now + P.retrans_time]

\* the handler after the probe-budget block: the timer is re-armed for a
\* timer state and the lock dropped; an INCOMPLETE or PROBE entry is then
\* solicited, any other released at once.  purged: the packets that
\* skb_queue_purge freed at the end of the failure block; NET: the packets'
\* record so far
TimerFinish(e, n1, next, purged, NET) ==
  LET t == IF time_before(next, jiffies + HZ \div 2) THEN jiffies + HZ \div 2 ELSE next
      n2 == IF n1.nud_state \in NUD_IN_TIMER THEN ArmTimer(n1, t) ELSE n1
      N2 == [neigh EXCEPT ![e] = n2]
  IN  IF n2.nud_state \in {NUD_INCOMPLETE, NUD_PROBE}
      THEN /\ neigh' = N2
           /\ tmr' = [tmr EXCEPT ![e] = [IdleTmr EXCEPT !.pc = "solicit"]]
           /\ net' = [NET EXCEPT !.freed = @ \cup purged]
           /\ UNCHANGED tbl
      ELSE LET N3 == neigh_release(N2, e)
           IN  /\ neigh' = N3
               /\ tmr' = [tmr EXCEPT ![e] = IdleTmr]
               /\ tbl' = [tbl EXCEPT !.entries = EntriesAfter(N2, N3)]
               /\ net' = [NET EXCEPT !.freed = @ \cup purged \cup PurgedSkbs(N2, N3)]

\* the failure block's loop, under the lock: while the entry is FAILED the
\* next packet is taken off the queue and the lock dropped for error_report;
\* otherwise the rest of the queue is purged and the handler goes on
TimerReportLoop(e, n, next, NET) ==
  IF n.nud_state = NUD_FAILED /\ n.arp_queue # <<>>
  THEN /\ neigh' = [neigh EXCEPT ![e] = [n EXCEPT !.arp_queue = Tail(@)]]
       /\ tmr' = [tmr EXCEPT ![e] = [pc |-> "report", next |-> next,
                                     skb |-> Head(n.arp_queue)]]
       /\ net' = NET
       /\ UNCHANGED tbl
  ELSE TimerFinish(e, [n EXCEPT !.arp_queue = <<>>], next, Range(n.arp_queue), NET)

neigh_timer_handler(e) ==
  /\ ~net.oops
  /\ tmr[e].pc = "run"
  /\ LET n == neigh[e]
     IN  IF n.nud_state \notin NUD_IN_TIMER
         THEN \* "timer & !nud_in_timer": out
              LET N3 == neigh_release(neigh, e)
              IN  /\ neigh' = N3
                  /\ tmr' = [tmr EXCEPT ![e] = IdleTmr]
                  /\ tbl' = [tbl EXCEPT !.entries = EntriesAfter(neigh, N3)]
                  /\ net' = [net EXCEPT !.freed = @ \cup PurgedSkbs(neigh, N3)]
         ELSE LET r == TimerTransition(n)
                  failed == /\ r.n.nud_state \in {NUD_INCOMPLETE, NUD_PROBE}
                            /\ r.n.probes >= neigh_max_probes(r.n)
                  \* one more call that found the entry INCOMPLETE or PROBE
                  rn == IF n.nud_state \in {NUD_INCOMPLETE, NUD_PROBE}
                        THEN [r.n EXCEPT !.fired = @ + 1] ELSE r.n
              IN  IF failed
                  THEN TimerReportLoop(e, [rn EXCEPT !.nud_state = NUD_FAILED,
                                                     !.fired = 0],
                                       r.next, net)
                  ELSE TimerFinish(e, rn, r.next, {}, net)
  /\ UNCHANGED <<jiffies, ctx>>
  /\ LeakBounded'

\* neigh->ops->error_report(neigh, skb) returned; the lock is taken again
\* and the loop goes on
neigh_timer_report(e) ==
  /\ ~net.oops
  /\ tmr[e].pc = "report"
  /\ TimerReportLoop(e, neigh[e], tmr[e].next,
                     [net EXCEPT !.reported = Append(@, tmr[e].skb)])
  /\ UNCHANGED <<jiffies, ctx>>
  /\ LeakBounded'

\* neigh->ops->solicit(neigh, skb_peek(&neigh->arp_queue)), then
\* atomic_inc(&neigh->probes) and neigh_release(neigh), without the lock
neigh_timer_solicit(e) ==
  /\ ~net.oops
  /\ tmr[e].pc = "solicit"
  /\ LET N2 == [neigh EXCEPT ![e].probes = @ + 1]
         N3 == neigh_release(N2, e)
     IN  /\ neigh' = N3
         /\ tbl' = [tbl EXCEPT !.entries = EntriesAfter(N2, N3)]
         /\ net' = [net EXCEPT !.freed = @ \cup PurgedSkbs(N2, N3)]
  /\ tmr' = [tmr EXCEPT ![e] = IdleTmr]
  /\ UNCHANGED <<jiffies, ctx>>
(***************************************************************************)
(* Table-wide sweeps, each one critical section on tbl->lock.              *)
(***************************************************************************)
\* the concatenation of the chains, bucket 0 first: the order of a sweep
RECURSIVE ChainsFrom(_)
ChainsFrom(b) ==
  IF b > NEIGH_HASHMASK THEN <<>> ELSE tbl.hash_buckets[b] \o ChainsFrom(b + 1)

\* neigh_periodic_timer: "used" after the sweep looked at the entry
PeriodicUsed(n) == IF time_before(n.used, n.confirmed) THEN n.confirmed ELSE n.used

\* neigh_periodic_timer: the sweep looks at the entry at all
PeriodicLooksAt(n) == n.nud_state \notin ({NUD_PERMANENT} \cup NUD_IN_TIMER)

\* neigh_periodic_timer: the entry is unlinked
PeriodicEvicts(n) ==
  /\ PeriodicLooksAt(n)
  /\ n.refcnt = 1
  /\ (n.nud_state = NUD_FAILED
      \/ time_after(jiffies, PeriodicUsed(n) + tbl.parms.gc_staletime))

\* rnd: net_random() % base_reachable_time, for neigh_rand_reach_time
neigh_periodic_timer(rnd) ==
  /\ ~net.oops
  /\ jiffies >= tbl.gc_timer
  /\ LET all == ChainsFrom(0)
         gone == {e \in Range(all) : PeriodicEvicts(neigh[e])}
         N1 == [e \in Slots |->
                  IF e \in Range(all) /\ PeriodicLooksAt(neigh[e])
                  THEN [neigh[e] EXCEPT !.used = PeriodicUsed(neigh[e]),
                                        !.dead = IF e \in gone THEN 1 ELSE @]
                  ELSE neigh[e]]
         N2 == ReleaseAll(N1, SeqFilter(all, gone))
         rerand == time_after(jiffies, tbl.last_rand + 300 * HZ)
     IN  /\ neigh' = N2
         /\ tbl' = [tbl EXCEPT
              !.hash_buckets = [b \in Buckets |-> SeqFilter(tbl.hash_buckets[b], Slots \ gone)],
              !.entries = EntriesAfter(neigh, N2),
              !.last_rand = IF rerand THEN jiffies ELSE @,
              !.parms.reachable_time =
                 IF rerand THEN rnd + (tbl.parms.base_reachable_time \div 2) ELSE @,
              !.gc_timer = jiffies + tbl.gc_interval]
         /\ net' = [net EXCEPT !.freed = @ \cup PurgedSkbs(neigh, N2)]
  /\ UNCHANGED <<jiffies, ctx, tmr>>

\* a neigh_ifdown that leaves an entry still in use as it is
IfdownEntryNotDemoted(N, e) ==
  LET N1 == neigh_del_timer(N, e)
  IN  neigh_release([N1 EXCEPT ![e].dead = 1], e)

\* neigh_ifdown: what the sweep does to one entry of the device before
\* releasing the table's reference
IfdownEntry(N, e) ==
  LET N1 == neigh_del_timer(N, e)
      n1 == [N1[e] EXCEPT !.dead = 1]
      n2 == IF n1.refcnt # 1
            THEN [n1 EXCEPT !.arp_queue = <<>>, !.output = "neigh_blackhole",
                            !.nud_state = IF n1.nud_state \in NUD_VALID
                                          THEN NUD_NOARP ELSE NUD_NONE,
                            !.fired = 0]
            ELSE n1
  IN  neigh_release([N1 EXCEPT ![e] = n2], e)

RECURSIVE IfdownAll(_, _)
IfdownAll(N, s) == IF s = <<>> THEN N ELSE IfdownAll(IfdownEntry(N, Head(s)), Tail(s))

\* the packets on the queues of the device's entries: purged by
\* neigh_ifdown from an entry still in use, by neigh_destroy from the others
IfdownPurged(N, gone) ==
  UNION {Range(N[e].arp_queue) : e \in gone}

\* pneigh_queue_purge(&tbl->proxy_queue): the packets it frees
ProxyPurged == {x.skb : x \in Range(tbl.proxy_queue)}

\* neigh_ifdown ends with del_timer_sync(&tbl->proxy_timer), which waits for
\* a running neigh_proxy_process, and pneigh_queue_purge(&tbl->proxy_queue)
neigh_ifdown(dev) ==
  /\ ~net.oops
  /\ ~tbl.proxy_timer.running
  /\ LET all == ChainsFrom(0)
         gone == {e \in Range(all) : neigh[e].dev = dev}
         N2 == IfdownAll(neigh, SeqFilter(all, gone))
     IN  /\ neigh' = N2
         /\ tbl' = [tbl EXCEPT
              !.hash_buckets = [b \in Buckets |-> SeqFilter(tbl.hash_buckets[b], Slots \ gone)],
              !.entries = EntriesAfter(neigh, N2),
              !.proxy_timer = [@ EXCEPT !.pending = FALSE],
              !.proxy_queue = <<>>]
         /\ net' = [net EXCEPT !.freed = @ \cup IfdownPurged(neigh, gone) \cup ProxyPurged]
  /\ UNCHANGED <<jiffies, ctx, tmr>>

\* a neigh_changeaddr that unlinks an entry without marking it dead
ChangeaddrEntryAlive(N, e) == neigh_release(neigh_del_timer(N, e), e)

\* neigh_changeaddr: what the sweep does to one entry of the device
ChangeaddrEntry(N, e) ==
  neigh_release(neigh_del_timer([N EXCEPT ![e].dead = 1], e), e)

RECURSIVE ChangeaddrAll(_, _)
ChangeaddrAll(N, s) ==
  IF s = <<>> THEN N ELSE ChangeaddrAll(ChangeaddrEntry(N, Head(s)), Tail(s))

neigh_changeaddr(dev) ==
  /\ ~net.oops
  /\ LET all == ChainsFrom(0)
         gone == {e \in Range(all) : neigh[e].dev = dev}
         N2 == ChangeaddrAll(neigh, SeqFilter(all, gone))
     IN  /\ neigh' = N2
         /\ tbl' = [tbl EXCEPT
              !.hash_buckets = [b \in Buckets |-> SeqFilter(tbl.hash_buckets[b], Slots \ gone)],
              !.entries = EntriesAfter(neigh, N2)]
         /\ net' = [net EXCEPT !.freed = @ \cup PurgedSkbs(neigh, N2)]
  /\ UNCHANGED <<jiffies, ctx, tmr>>
\* __neigh_for_each_release, called with the table write lock held: cb(n)
\* is true of the entries in rel
ForEachReleaseEntry(N, e) == neigh_release([N EXCEPT ![e].dead = 1], e)

RECURSIVE ForEachReleaseAll(_, _)
ForEachReleaseAll(N, s) ==
  IF s = <<>> THEN N ELSE ForEachReleaseAll(ForEachReleaseEntry(N, Head(s)), Tail(s))

__neigh_for_each_release(rel) ==
  /\ ~net.oops
  /\ LET all == ChainsFrom(0)
         gone == Range(all) \cap rel
         N2 == ForEachReleaseAll(neigh, SeqFilter(all, gone))
     IN  /\ gone # {}
         /\ neigh' = N2
         /\ tbl' = [tbl EXCEPT
              !.hash_buckets = [b \in Buckets |-> SeqFilter(tbl.hash_buckets[b], Slots \ gone)],
              !.entries = EntriesAfter(neigh, N2)]
         /\ net' = [net EXCEPT !.freed = @ \cup PurgedSkbs(neigh, N2)]
  /\ UNCHANGED <<jiffies, ctx, tmr>>
(***************************************************************************)
(* The output functions an entry's output pointer can name.                *)
(***************************************************************************)
\* dev->addr_len: device 1 has link-layer addresses, the others have none
addr_len(dev) == IF dev = 1 THEN 1 ELSE 0

\* n1->output(skb) on entry e: the entries and the packets after the call
Output(N, NET, e, skb) ==
  LET NET1 == [NET EXCEPT !.output = Append(@, skb)]
  IN  IF N[e].output = "neigh_blackhole"
      THEN [N |-> N, NET |-> [NET1 EXCEPT !.freed = @ \cup {skb}], undef |-> FALSE]
      ELSE IF N[e].output = "neigh_connected_output"
      THEN [N |-> N, NET |-> [NET1 EXCEPT !.xmit = Append(@, skb)], undef |-> FALSE]
      ELSE \* neigh_resolve_output: neigh_event_send, then the transmission
           LET r == EventSend(N[e], skb)
           IN  [N |-> [N EXCEPT ![e] = r.n],
                NET |-> [NET1 EXCEPT !.freed = @ \cup r.freed,
                                     !.xmit = IF r.rc = 0 THEN Append(@, skb) ELSE @],
                undef |-> r.undef]

(***************************************************************************)
(* neigh_update.                                                           *)
(***************************************************************************)
\* dev->hard_header_cache and dev->header_cache_update: the devices with
\* link-layer addresses cache their headers
HasHeaderCache(dev) == addr_len(dev) # 0

\* a neigh_update_hhs that rewrites nothing
neigh_update_hhs_none(n) == n

\* neigh_update_hhs: update(hh, neigh->dev, neigh->ha) for every cached header
neigh_update_hhs(n) ==
  IF HasHeaderCache(n.dev) /\ n.hh # <<>>
  THEN [n EXCEPT !.hh = [i \in 1..Len(n.hh) |-> [n.hh[i] EXCEPT !.hh_data = n.ha]]]
  ELSE n

\* the end of neigh_update, from the label "out" on
UpdateOut(p, N, NET, update_isrouter, flags, err) ==
  LET e == ctx[p].ref
  IN  /\ neigh' = IF update_isrouter
                  THEN [N EXCEPT ![e].flags =
                          IF NEIGH_UPDATE_F_ISROUTER \in flags THEN 1 ELSE 0]
                  ELSE N
      /\ net' = NET
      /\ ctx' = [ctx EXCEPT ![p] = [IdleCtx EXCEPT !.ref = e, !.rc = err]]

\* the loop that hands the queued packets to the output function: under the
\* lock the next packet is taken off the queue and the lock dropped for the
\* call, or the loop is left, the queue purged and the update finished
UpdateDrain(p, N, NET, update_isrouter, flags) ==
  LET e == ctx[p].ref
      n == N[e]
  IN  IF n.nud_state \in NUD_VALID /\ n.arp_queue # <<>>
      THEN /\ neigh' = [N EXCEPT ![e].arp_queue = Tail(@)]
           /\ net' = NET
           /\ ctx' = [ctx EXCEPT ![p].pc = "update_output", ![p].skb = Head(n.arp_queue),
                                 ![p].flags = flags,
                                 ![p].update_isrouter = update_isrouter]
      ELSE UpdateOut(p, [N EXCEPT ![e].arp_queue = <<>>],
                     [NET EXCEPT !.freed = @ \cup Range(n.arp_queue)],
                     update_isrouter, flags, 0)

\* a neigh_update that never keeps the old state
RetainsStateNever(old, isha, new, flags) == FALSE

\* "If entry was valid and address is not changed, do not change entry state,
\* if new one is STALE": the test that makes new = old
RetainsState(old, isha, new, flags) ==
  /\ isha
  /\ new = NUD_STALE
  /\ (NEIGH_UPDATE_F_WEAK_OVERRIDE \in flags \/ old \in NUD_CONNECTED)

\* neigh_update from the address comparison on; isha: lladdr == neigh->ha
UpdateValid(p, lladdr0, isha0, new0, flags) ==
  LET e == ctx[p].ref
      n == neigh[e]
      old == n.nud_state
      P == tbl.parms
      n1 == [n EXCEPT !.confirmed = IF new0 \in NUD_CONNECTED THEN jiffies ELSE @,
                      !.updated = jiffies]
      rejects == old \in NUD_VALID /\ ~isha0 /\ NEIGH_UPDATE_F_OVERRIDE \notin flags
      weak == NEIGH_UPDATE_F_WEAK_OVERRIDE \in flags /\ old \in NUD_CONNECTED
      update_isrouter == NEIGH_UPDATE_F_OVERRIDE_ISROUTER \in flags /\ ~rejects
      isha == isha0 \/ (rejects /\ weak)
      new == IF rejects /\ weak THEN NUD_STALE
             ELSE IF old \in NUD_VALID /\ ~rejects /\ RetainsState(old, isha0, new0, flags)
             THEN old
             ELSE new0
  IN  IF rejects /\ ~weak
      THEN UpdateOut(p, [neigh EXCEPT ![e] = n1], net, update_isrouter, flags, 0)
      ELSE
        LET N2 == IF new # old
                  THEN LET Nd == neigh_del_timer([neigh EXCEPT ![e] = n1], e)
                           nd == IF new \in NUD_IN_TIMER
                                 THEN ArmTimer(Nd[e], jiffies +
                                        (IF new = NUD_REACHABLE THEN P.reachable_time ELSE 0))
                                 ELSE Nd[e]
                       IN  [Nd EXCEPT ![e] = [nd EXCEPT !.nud_state = new, !.fired = 0]]
                  ELSE [neigh EXCEPT ![e] = n1]
            n3 == IF ~isha
                  THEN [neigh_update_hhs([N2[e] EXCEPT !.ha = lladdr0])
                          EXCEPT !.confirmed = IF new \notin NUD_CONNECTED
                                               THEN jiffies - 2 * P.base_reachable_time
                                               ELSE @]
                  ELSE N2[e]
            N3 == [N2 EXCEPT ![e] = n3]
        IN  IF new = old
            THEN UpdateOut(p, N3, net, update_isrouter, flags, 0)
            ELSE LET n4 == IF new \in NUD_CONNECTED THEN neigh_connect(n3)
                           ELSE neigh_suspect(n3)
                     N4 == [N3 EXCEPT ![e] = n4]
                 IN  IF old \notin NUD_VALID
                     THEN UpdateDrain(p, N4, net, update_isrouter, flags)
                     ELSE UpdateOut(p, N4, net, update_isrouter, flags, 0)

\* a neigh_update that lets every caller through, ADMIN or not
neigh_update_unlocked(p, lladdr, new, flags) ==
  /\ ctx[p].pc = "idle"
  /\ ctx[p].ref # NULL
  /\ LET e == ctx[p].ref
         n == neigh[e]
         old == n.nud_state
     IN  IF new \notin NUD_VALID
         THEN LET N1 == neigh_del_timer(neigh, e)
                  n2 == IF old \in NUD_CONNECTED THEN neigh_suspect(N1[e]) ELSE N1[e]
              IN  UpdateOut(p, [N1 EXCEPT ![e] = [n2 EXCEPT !.nud_state = new,
                                                            !.fired = 0]],
                            net, FALSE, flags, 0)
         ELSE IF lladdr # NULL
         THEN UpdateValid(p, lladdr, old \in NUD_VALID /\ lladdr = n.ha, new, flags)
         ELSE IF old \notin NUD_VALID
         THEN UpdateOut(p, neigh, net, FALSE, flags, -EINVAL)
         ELSE UpdateValid(p, n.ha, TRUE, new, flags)
  /\ UNCHANGED <<jiffies, tbl, tmr>>
  /\ LeakBounded'

\* a neigh_update that takes no notice of the OVERRIDE flag
neigh_update_no_override(p, lladdr, new, flags) ==
  /\ ctx[p].pc = "idle"
  /\ ctx[p].ref # NULL
  /\ LET e == ctx[p].ref
         n == neigh[e]
         old == n.nud_state
         weak == flags \ {NEIGH_UPDATE_F_OVERRIDE}
     IN  IF NEIGH_UPDATE_F_ADMIN \notin flags /\ old \in {NUD_NOARP, NUD_PERMANENT}
         THEN UpdateOut(p, neigh, net, FALSE, flags, -EPERM)
         ELSE IF new \notin NUD_VALID
         THEN LET N1 == neigh_del_timer(neigh, e)
                  n2 == IF old \in NUD_CONNECTED THEN neigh_suspect(N1[e]) ELSE N1[e]
              IN  UpdateOut(p, [N1 EXCEPT ![e] = [n2 EXCEPT !.nud_state = new,
                                                            !.fired = 0]],
                            net, FALSE, flags, 0)
         ELSE IF lladdr # NULL
         THEN UpdateValid(p, lladdr, old \in NUD_VALID /\ lladdr = n.ha, new, weak)
         ELSE IF old \notin NUD_VALID
         THEN UpdateOut(p, neigh, net, FALSE, flags, -EINVAL)
         ELSE UpdateValid(p, n.ha, TRUE, new, weak)
  /\ UNCHANGED <<jiffies, tbl, tmr>>
  /\ LeakBounded'

neigh_update(p, lladdr, new, flags) ==
  /\ ctx[p].pc = "idle"
  /\ ctx[p].ref # NULL
  /\ LET e == ctx[p].ref
         n == neigh[e]
         old == n.nud_state
     IN  IF NEIGH_UPDATE_F_ADMIN \notin flags /\ old \in {NUD_NOARP, NUD_PERMANENT}
         THEN UpdateOut(p, neigh, net, FALSE, flags, -EPERM)
         ELSE IF new \notin NUD_VALID
         THEN LET N1 == neigh_del_timer(neigh, e)
                  n2 == IF old \in NUD_CONNECTED THEN neigh_suspect(N1[e]) ELSE N1[e]
              IN  UpdateOut(p, [N1 EXCEPT ![e] = [n2 EXCEPT !.nud_state = new,
                                                            !.fired = 0]],
                            net, FALSE, flags, 0)
         ELSE IF addr_len(n.dev) = 0
         THEN UpdateValid(p, n.ha, TRUE, new, flags)
         ELSE IF lladdr # NULL
         THEN UpdateValid(p, lladdr, old \in NUD_VALID /\ lladdr = n.ha, new, flags)
         ELSE IF old \notin NUD_VALID
         THEN UpdateOut(p, neigh, net, FALSE, flags, -EINVAL)
         ELSE UpdateValid(p, n.ha, TRUE, new, flags)
  /\ UNCHANGED <<jiffies, tbl, tmr>>
  /\ LeakBounded'

\* n1->output(skb) returned; the lock is taken again and the loop goes on
neigh_update_output(p, oops) ==
  /\ ctx[p].pc = "update_output"
  /\ LET r == Output(neigh, net, ctx[p].ref, ctx[p].skb)
     IN  IF r.undef /\ oops
         THEN /\ neigh' = r.N
              /\ net' = [r.NET EXCEPT !.oops = TRUE]
              /\ ctx' = Halt(ctx)
         ELSE UpdateDrain(p, r.N, r.NET, ctx[p].update_isrouter, ctx[p].flags)
  /\ UNCHANGED <<jiffies, tbl, tmr>>
  /\ LeakBounded'

\* neigh_resolve_output after neigh_event_send returned 0, on a device that
\* caches headers, for a route that has no cached header yet: under the
\* entry lock neigh_hh_init looks for the header of the protocol and, when
\* there is none, builds it from neigh->ha and puts it at the head of the list
neigh_hh_init(p, protocol) ==
  /\ ~net.oops
  /\ ctx[p].pc = "idle"
  /\ ctx[p].ref # NULL
  /\ LET e == ctx[p].ref
         n == neigh[e]
         hh == [hh_type |-> protocol, hh_data |-> n.ha,
                hh_output |-> IF n.nud_state \in NUD_CONNECTED
                              THEN "dev_queue_xmit" ELSE "neigh_resolve_output"]
     IN  /\ n.nud_state \in NUD_CONNECTED \cup {NUD_DELAY, NUD_PROBE}
         /\ HasHeaderCache(n.dev)
         /\ \A i \in 1..Len(n.hh) : n.hh[i].hh_type # protocol
         /\ neigh' = [neigh EXCEPT ![e].hh = <<hh>> \o @]
  /\ UNCHANGED <<jiffies, tbl, tmr, ctx, net>>
(***************************************************************************)
(* The table after neigh_table_init, for parameters P; rnd is              *)
(* net_random() % base_reachable_time.                                     *)
(***************************************************************************)
neigh_rand_reach_time(base, rnd) == rnd + (base \div 2)

neigh_table_init(P, rnd, thresh2, thresh3, interval) ==
  LET reach == neigh_rand_reach_time(P.base_reachable_time, rnd)
  IN  [hash_buckets |-> [b \in Buckets |-> <<>>],
       entries |-> 0,
       last_flush |-> 0,
       last_rand |-> reach * 20,
       gc_timer |-> interval + reach,
       gc_interval |-> interval,
       gc_thresh2 |-> thresh2,
       gc_thresh3 |-> thresh3,
       proxy_queue |-> <<>>,
       proxy_timer |-> [pending |-> FALSE, expires |-> 0, running |-> FALSE, now |-> 0],
       parms |-> [P EXCEPT !.reachable_time = reach]]

Parms(ucast, app, mcast, qlen, retrans, base, delay, stale) ==
  [ucast_probes |-> ucast, app_probes |-> app, mcast_probes |-> mcast,
   retrans_time |-> retrans, base_reachable_time |-> base,
   reachable_time |-> 0, delay_probe_time |-> delay,
   gc_staletime |-> stale, queue_len |-> qlen, dead |-> FALSE,
   proxy_qlen |-> ProxyQlen, proxy_delay |-> ProxyDelay]

\* no dump in progress: an empty neigh_tables list, cb->args zeroed
IdleDump ==
  [neigh_tables |-> <<>>, family |-> 0, args |-> [i \in 0..2 |-> 0],
   emitted |-> <<>>, calls |-> 0, done |-> FALSE]

InitNet ==
  [nskb |-> 1, xmit |-> <<>>, output |-> <<>>, reported |-> <<>>,
   redone |-> <<>>, freed |-> {}, oops |-> FALSE, dump |-> IdleDump]

InitRest ==
  /\ jiffies = 0
  /\ neigh = [e \in Slots |-> FreeNeigh]
  /\ ctx = [p \in Procs |-> IdleCtx]
  /\ tmr = [e \in Slots |-> IdleTmr]
  /\ net = InitNet

(***************************************************************************)
(* Spec: the table under concurrent users, collectors, sweeps and the      *)
(* entries' timers, all within one tick of the clock.                      *)
(***************************************************************************)
Init ==
  /\ tbl = neigh_table_init(Parms(UcastProbes, AppProbes, McastProbes, QueueLen,
                                  RetransTime, BaseReachableTime, DelayProbeTime,
                                  GcStaleTime),
                            0, GcThresh2, GcThresh3, GcInterval)
  /\ InitRest

\* a protocol's neigh_update on a received request: the sender's address is
\* learnt as STALE
LearnFlags == {NEIGH_UPDATE_F_OVERRIDE}

Next ==
  \/ \E p \in Procs, k \in Keys, d \in Devs, cerr \in {0, -EINVAL} :
        neigh_create(p, k, d, TRUE, cerr, 0)
  \/ \E p \in Procs : neigh_forced_gc(p)
  \/ \E p \in Procs, cerr \in {0, -EINVAL} : neigh_alloc(p, TRUE, cerr, 0)
  \/ \E p \in Procs : neigh_create_link(p)
  \/ \E p \in Procs, k \in Keys, d \in Devs : neigh_lookup(p, k, d)
  \/ \E p \in Procs : neigh_put(p)
  \/ \E p \in Procs : __neigh_event_send(p, NULL, FALSE)
  \/ \E p \in Procs, a \in Addrs : neigh_update(p, a, NUD_STALE, LearnFlags)
  \/ \E e \in Slots : timer_expire(e)
  \/ \E e \in Slots : neigh_timer_handler(e)
  \/ \E e \in Slots : neigh_timer_solicit(e)
  \/ \E rnd \in 0..(BaseReachableTime - 1) : neigh_periodic_timer(rnd)
  \/ \E d \in Devs : neigh_ifdown(d)
  \/ \E d \in Devs : neigh_changeaddr(d)
  \/ \E rel \in SUBSET Slots : __neigh_for_each_release(rel)

Spec == Init /\ [][Next]_vars

(***************************************************************************)
(* Claims checked under Spec.                                              *)
(***************************************************************************)
\* the entries linked in the chains for the pair (pkey, dev)
LinkedFor(pkey, dev) ==
  {<<b, i>> \in Buckets \X Slots :
      /\ i <= Len(tbl.hash_buckets[b])
      /\ neigh[tbl.hash_buckets[b][i]].key = pkey
      /\ neigh[tbl.hash_buckets[b][i]].dev = dev}

\* C1: in every reachable state, under any interleaving of neigh_create,
\* neigh_lookup, neigh_release, the collectors, neigh_ifdown and the timers,
\* the hash buckets hold at most one entry for any (key, dev) pair.
C1_UniquePerKeyDev ==
  \A k \in Keys, d \in Devs : Cardinality(LinkedFor(k, d)) <= 1

\* C1's case: a creator holds a fresh entry for a pair whose entry another
\* creator has linked since
C1_Witness ==
  \E p \in Procs, e \in Linked :
     /\ ctx[p].pc = "link"
     /\ ctx[p].n # e
     /\ neigh[e].key = ctx[p].key
     /\ neigh[e].dev = ctx[p].dev
     /\ neigh[ctx[p].n].key = ctx[p].key
     /\ neigh[ctx[p].n].dev = ctx[p].dev

\* what C2 says of the step in which caller p leaves neigh_create's critical
\* section with an entry
C2_LinkStep(p) ==
  LET n == ctx[p].n
      k == ctx[p].key
      d == ctx[p].dev
      e == ctx'[p].ref
      others == {q \in Procs \ {p} :
                   /\ ctx[q].ref \in Linked
                   /\ neigh[ctx[q].ref].key = k
                   /\ neigh[ctx[q].ref].dev = d}
  IN  /\ e # NULL
      /\ ctx'[p].rc = 0
      \* the caller's own entry was private until now
      /\ n \notin Linked /\ neigh[n].dead = 1 /\ neigh[n].refcnt = 1
      \* every caller gets the one linked entry
      /\ \A q \in others : ctx[q].ref = e
      /\ e \in Linked' /\ neigh'[e].key = k /\ neigh'[e].dev = d /\ neigh'[e].dead = 0
      /\ \A kk \in Keys, dd \in Devs :
            kk = k /\ dd = d => Cardinality(LinkedFor(kk, dd)') = 1
      \* one reference per caller besides the table's
      /\ neigh'[e].refcnt = IF e = n THEN 2 ELSE neigh[e].refcnt + 1
      /\ neigh'[e].refcnt >= 1 + Cardinality({q \in Procs : ctx'[q].ref = e})
      \* the loser's entry is destroyed, never linked
      /\ e # n => ~neigh'[n].alloc /\ n \notin Linked'

\* C2: callers that run neigh_create concurrently for one (key, dev) without
\* an error return the same entry; exactly one entry is linked; its
\* reference count has one reference per caller besides the table's; the
\* loser's fresh entry is released and destroyed without ever being linked.
C2_ConcurrentCreate ==
  [][\A p \in Procs : (ctx[p].pc = "link" /\ ctx'[p].pc = "idle") => C2_LinkStep(p)]_vars

\* C2's case: both callers are in neigh_create for the same pair, each with
\* its own fresh entry, and neither has linked yet
C2_Witness ==
  \E p, q \in Procs :
     /\ p # q
     /\ ctx[p].pc = "link" /\ ctx[q].pc = "link"
     /\ ctx[p].key = ctx[q].key /\ ctx[p].dev = ctx[q].dev
     /\ ctx[p].n # ctx[q].n
     /\ LinkedFor(ctx[p].key, ctx[p].dev) = {}

\* every reference that is held is a reference to allocated memory, and
\* allocated memory has a reference
C3_HeldIsAllocated ==
  /\ \A e \in Slots : neigh[e].alloc => neigh[e].refcnt >= 1
  /\ \A e \in Linked : neigh[e].alloc
  /\ \A p \in Procs : ctx[p].ref # NULL => neigh[ctx[p].ref].alloc
  /\ \A p \in Procs : ctx[p].pc = "link" => neigh[ctx[p].n].alloc
  /\ \A e \in Slots : tmr[e].pc # "idle" => neigh[e].alloc

\* what C3 says of a step that frees entry e
C3_FreeStep(e) ==
  \* it was dead, or the step itself unlinked it
  /\ neigh[e].dead = 1 \/ e \in Linked
  /\ e \notin Linked'
  \* the step dropped every reference there was
  /\ neigh[e].refcnt = Holders(e)
  /\ Holders(e)' = 0

\* C3: an entry is freed by neigh_destroy if and only if it is unlinked
\* (dead == 1) and its reference count has reached zero; no entry that is
\* linked in a bucket and no entry with a nonzero reference count is ever
\* freed.
C3_FreedIffDeadAndUnreferenced ==
  /\ []C3_HeldIsAllocated
  /\ [][\A e \in Slots : (neigh[e].alloc /\ ~neigh'[e].alloc) => C3_FreeStep(e)]_vars

\* C3's case: an entry was unlinked while a user held it; it is dead, out
\* of the chains, and not freed before its last reference goes
C3_Witness ==
  \E e \in Slots, p \in Procs :
     /\ neigh[e].alloc /\ neigh[e].dead = 1 /\ e \notin Linked
     /\ ctx[p].ref = e
     /\ neigh[e].refcnt = 1
     /\ tbl.entries = 1

\* C4: whenever the table lock is free, an entry is linked in a chain if and
\* only if its dead flag is 0; once an unlinking path has set dead, the flag
\* stays set and no later neigh_lookup or neigh_create returns the entry.
C4_LinkedIffAlive ==
  /\ [](\A e \in Slots : neigh[e].alloc => (e \in Linked <=> neigh[e].dead = 0))
  /\ [][/\ \A p \in Procs :
             (ctx'[p].ref # NULL /\ ctx'[p].ref # ctx[p].ref)
                => neigh'[ctx'[p].ref].dead = 0 /\ ctx'[p].ref \in Linked'
        /\ \A e \in Slots :
             (neigh[e].alloc /\ neigh[e].dead = 1 /\ neigh'[e].alloc /\ neigh'[e].dead = 0)
                => \E p \in Procs : ctx[p].pc = "link" /\ ctx[p].n = e /\ ctx'[p].ref = e
       ]_vars

\* C4's case: a user still holds an entry that a sweep or a collector
\* unlinked, and another user got a different, linked entry for the same
\* pair afterwards
C4_Witness ==
  \E p, q \in Procs :
     /\ ctx[p].ref # NULL /\ ctx[q].ref # NULL /\ ctx[p].ref # ctx[q].ref
     /\ neigh[ctx[p].ref].dead = 1 /\ ctx[p].ref \notin Linked
     /\ neigh[ctx[q].ref].dead = 0 /\ ctx[q].ref \in Linked
     /\ neigh[ctx[p].ref].key = neigh[ctx[q].ref].key
     /\ neigh[ctx[p].ref].dev = neigh[ctx[q].ref].dev

(***************************************************************************)
(* SpecQueue: senders, replies, the administrative delete and the timer on *)
(* the entry of one neighbour, with tagged packets.  The sysctl unres_qlen *)
(* has set parms->queue_len before the entry was created.                  *)
(***************************************************************************)
InitQueue ==
  /\ \E qlen \in 0..MaxQueueLen :
        tbl = neigh_table_init(Parms(UcastProbes, AppProbes, McastProbes, qlen,
                                     RetransTime, BaseReachableTime, DelayProbeTime,
                                     GcStaleTime),
                               0, GcThresh2, GcThresh3, GcInterval)
  /\ InitRest

\* neigh_delete's call: neigh_update(n, NULL, NUD_FAILED, OVERRIDE | ADMIN)
AdminFlags == {NEIGH_UPDATE_F_OVERRIDE, NEIGH_UPDATE_F_ADMIN}

NextQueue ==
  \/ \E p \in Procs, k \in Keys, d \in Devs : neigh_create(p, k, d, TRUE, 0, 0)
  \/ \E p \in Procs : neigh_create_link(p)
  \/ \E p \in Procs, skb \in SendSkbs \ {NULL}, oops \in BOOLEAN :
        __neigh_event_send(p, skb, oops)
  \/ \E p \in Procs, a \in Addrs : neigh_update(p, a, NUD_REACHABLE, LearnFlags)
  \/ \E p \in Procs : neigh_update(p, NULL, NUD_FAILED, AdminFlags)
  \/ \E p \in Procs, oops \in BOOLEAN : neigh_update_output(p, oops)
  \/ \E e \in Slots : timer_expire(e)
  \/ \E e \in Slots : neigh_timer_handler(e)
  \/ \E e \in Slots : neigh_timer_report(e)
  \/ \E e \in Slots : neigh_timer_solicit(e)
  \/ Tick(MaxJiffies)

SpecQueue == InitQueue /\ [][NextQueue]_vars

\* the step is a call of __neigh_event_send by p with a fresh packet
Sent(p) == net'.nskb = net.nskb + 1 /\ ctx'[p].skb = net.nskb

\* C5: for every entry, in every reachable state, the number of packets on
\* arp_queue does not exceed parms->queue_len.
C5_QueueBound ==
  \A e \in Slots : neigh[e].alloc => Len(neigh[e].arp_queue) <= tbl.parms.queue_len

\* what C6 says of a call by p that left its packet on the entry's queue
C6_Enqueue(p) ==
  LET e == ctx[p].ref
      q == neigh[e].arp_queue
      skb == net.nskb
  IN  /\ IF Len(q) >= tbl.parms.queue_len
         THEN /\ q # <<>>
              /\ neigh'[e].arp_queue = Append(Tail(q), skb)
              /\ net'.freed = net.freed \cup {Head(q)}
         ELSE /\ neigh'[e].arp_queue = Append(q, skb)
              /\ net'.freed = net.freed
      \* the sender is back at once
      /\ ctx'[p].pc = "idle"

\* C6: when __neigh_event_send enqueues a packet on an INCOMPLETE entry
\* whose queue is at the limit, exactly one packet is dropped, the oldest,
\* and the new packet is appended at the tail; below the limit no packet is
\* dropped; the sender is never blocked.
C6_DropOldest ==
  [][\A p \in Procs :
       (Sent(p) /\ neigh'[ctx[p].ref].nud_state = NUD_INCOMPLETE) => C6_Enqueue(p)]_vars

\* C7: the packets that were queued on an unresolved entry are handed to
\* the output function in the order in which they were queued: the tags of
\* the packets, in the order of their first hand-over, increase.
C7_FifoOutput ==
  \A i, j \in DOMAIN net.output :
     (i < j /\ net.output[j] < net.output[i])
        => \E k \in 1..(i - 1) : net.output[k] = net.output[j]

(***************************************************************************)
(* SpecNoProbe: as SpecQueue, with the probe counts that the sysctls       *)
(* ucast_solicit and mcast_solicit have set, zero included.                *)
(***************************************************************************)
InitNoProbe ==
  /\ \E ucast \in 0..UcastProbes, mcast \in 0..McastProbes :
        tbl = neigh_table_init(Parms(ucast, AppProbes, mcast, QueueLen,
                                     RetransTime, BaseReachableTime, DelayProbeTime,
                                     GcStaleTime),
                               0, GcThresh2, GcThresh3, GcInterval)
  /\ InitRest

SpecNoProbe == InitNoProbe /\ [][NextQueue]_vars

\* the step is a call of __neigh_event_send by p, with a packet, on an entry
\* that is not resolving
SentUnresolved(p) ==
  /\ Sent(p)
  /\ neigh[ctx[p].ref].nud_state \in {NUD_NONE, NUD_FAILED}

\* C10: when __neigh_event_send is called with a packet on an entry that is
\* NONE or FAILED and whose parameters configure zero probes, the entry
\* becomes FAILED at once and the packet is handed to the error-report
\* callback.
C10_Reported ==
  [][\A p \in Procs :
       (/\ SentUnresolved(p)
        /\ tbl.parms.ucast_probes + tbl.parms.app_probes + tbl.parms.mcast_probes = 0)
          => /\ neigh'[ctx[p].ref].nud_state = NUD_FAILED
             /\ net.nskb \in Range(net'.reported)]_vars

\* what the code does instead: when neither multicast nor application
\* probes are configured, __neigh_event_send on an entry that is not
\* resolving makes the entry FAILED at once, arms no timer, frees the packet
\* without queueing it or reporting it, and returns 1.
FailedAndFreed ==
  [][\A p \in Procs :
       (SentUnresolved(p) /\ tbl.parms.app_probes + tbl.parms.mcast_probes = 0)
          => /\ neigh'[ctx[p].ref] = [neigh[ctx[p].ref] EXCEPT !.nud_state = NUD_FAILED]
             /\ net'.freed = net.freed \cup {net.nskb}
             /\ net'.reported = net.reported
             /\ ctx'[p].rc = 1
             /\ ctx'[p].pc = "idle"]_vars

\* C10's case: with zero probes configured, a sender's packet was freed by
\* the call that made the entry FAILED
C10_Witness ==
  \E p \in Procs :
     /\ ctx[p].skb # NULL
     /\ ctx[p].pc = "idle"
     /\ ctx[p].rc = 1
     /\ tbl.parms.ucast_probes + tbl.parms.app_probes + tbl.parms.mcast_probes = 0
     /\ neigh[ctx[p].ref].nud_state = NUD_FAILED
     /\ ctx[p].skb \in net.freed
     /\ ctx[p].skb \notin Range(net.reported)

(***************************************************************************)
(* SpecLive: address resolution on the entry of one neighbour with the     *)
(* clock running: senders, replies, the administrative neigh_add that sets *)
(* an entry INCOMPLETE, and the timer.  The kernel runs an expired timer   *)
(* and a handler that has started finishes; the clock goes on.  Senders    *)
(* and updates act between the runs of the handler, and a sender only      *)
(* while the model's clock can still reach the timer it arms.              *)
(***************************************************************************)
LiveSkbs == {skb \in SendSkbs : skb <= MaxLiveSkb}

HandlersIdle == \A e \in Slots : tmr[e].pc = "idle"

SendInTime(p, skb) ==
  /\ jiffies < MaxJiffies
  /\ HandlersIdle
  /\ skb \in LiveSkbs
  /\ __neigh_event_send(p, skb, FALSE)

UpdateBetweenRuns(p, lladdr, new, flags) ==
  /\ HandlersIdle
  /\ neigh_update(p, lladdr, new, flags)

\* the output function may send on the entry again
OutputInTime(p) ==
  /\ jiffies < MaxJiffies
  /\ HandlersIdle
  /\ neigh_update_output(p, FALSE)

NextLive ==
  \/ \E p \in Procs, k \in Keys, d \in Devs : neigh_create(p, k, d, TRUE, 0, 0)
  \/ \E p \in Procs : neigh_create_link(p)
  \/ \E p \in Procs, skb \in 0..MaxLiveSkb : SendInTime(p, skb)
  \/ \E p \in Procs, a \in Addrs : UpdateBetweenRuns(p, a, NUD_REACHABLE, LearnFlags)
  \/ \E p \in Procs, a \in Addrs : UpdateBetweenRuns(p, a, NUD_STALE, LearnFlags)
  \/ \E p \in Procs : UpdateBetweenRuns(p, NULL, NUD_INCOMPLETE, AdminFlags)
  \/ \E p \in Procs : OutputInTime(p)
  \/ \E e \in Slots : timer_expire(e)
  \/ \E e \in Slots : neigh_timer_handler(e)
  \/ \E e \in Slots : neigh_timer_report(e)
  \/ \E e \in Slots : neigh_timer_solicit(e)
  \/ Tick(MaxJiffies)

TimersRun ==
  /\ WF_vars(Tick(MaxJiffies))
  /\ \A e \in Slots :
       /\ WF_vars(timer_expire(e))
       /\ WF_vars(neigh_timer_handler(e))
       /\ WF_vars(neigh_timer_report(e))
       /\ WF_vars(neigh_timer_solicit(e))

SpecLive == InitNoProbe /\ [][NextLive]_vars /\ TimersRun

\* entry e is being resolved
Resolving(e) == neigh[e].alloc /\ neigh[e].nud_state \in {NUD_INCOMPLETE, NUD_PROBE}

\* the probe budget of entry e: ucast_probes in PROBE, all three in INCOMPLETE
ProbeBudget(e) ==
  IF neigh[e].nud_state = NUD_PROBE
  THEN tbl.parms.ucast_probes
  ELSE tbl.parms.ucast_probes + tbl.parms.app_probes + tbl.parms.mcast_probes

\* an entry that is still INCOMPLETE or PROBE after a firing of its timer has
\* seen fewer firings than its probe budget
C8_WithinBudget ==
  \A e \in Slots : (Resolving(e) /\ neigh[e].fired > 0) => neigh[e].fired < ProbeBudget(e)

\* an entry that is INCOMPLETE or PROBE does not stay so forever
C8_Leaves == \A e \in Slots : Resolving(e) ~> ~Resolving(e)

\* C8: every entry that enters INCOMPLETE or PROBE reaches FAILED or a valid
\* state within a number of timer firings bounded by its probe budget, and
\* no entry stays INCOMPLETE or PROBE forever.
C8_ResolutionTerminates == []C8_WithinBudget /\ C8_Leaves

(***************************************************************************)
(* SpecGC: the two collectors against entries that are held, permanent,    *)
(* resolving, set INCOMPLETE by neigh_add, or idle, with the clock running *)
(* and parms->retrans_time as the sysctl retrans_time has set it.          *)
(***************************************************************************)
InitGC ==
  /\ \E retrans \in 0..MaxRetransTime :
        tbl = neigh_table_init(Parms(UcastProbes, AppProbes, McastProbes, QueueLen,
                                     retrans, BaseReachableTime, DelayProbeTime,
                                     GcStaleTime),
                               0, GcThresh2, GcThresh3, GcInterval)
  /\ InitRest

NextGC ==
  \/ \E p \in Procs, k \in Keys, d \in Devs : neigh_create(p, k, d, TRUE, 0, 0)
  \/ \E p \in Procs : neigh_forced_gc(p)
  \/ \E p \in Procs : neigh_alloc(p, TRUE, 0, 0)
  \/ \E p \in Procs : neigh_create_link(p)
  \/ \E p \in Procs, k \in Keys, d \in Devs : neigh_lookup(p, k, d)
  \/ \E p \in Procs : neigh_put(p)
  \/ \E p \in Procs : __neigh_event_send(p, NULL, FALSE)
  \/ \E p \in Procs, a \in Addrs : neigh_update(p, a, NUD_PERMANENT, AdminFlags)
  \/ \E p \in Procs : neigh_update(p, NULL, NUD_INCOMPLETE, AdminFlags)
  \/ \E e \in Slots : timer_expire(e)
  \/ \E e \in Slots : neigh_timer_handler(e)
  \/ \E e \in Slots : neigh_timer_solicit(e)
  \/ \E rnd \in 0..(BaseReachableTime - 1) : neigh_periodic_timer(rnd)
  \/ Tick(MaxJiffies)

SpecGC == InitGC /\ [][NextGC]_vars

\* the step is a bucket of neigh_forced_gc or a sweep of neigh_periodic_timer
GcStep ==
  \/ \E p \in Procs : neigh_forced_gc(p)
  \/ \E rnd \in 0..(BaseReachableTime - 1) : neigh_periodic_timer(rnd)

\* what C9 says a collector leaves alone: an entry somebody else refers to,
\* a PERMANENT one, an INCOMPLETE one used no longer than retrans_time ago
C9_Spared(n) ==
  \/ n.refcnt > 1
  \/ n.nud_state = NUD_PERMANENT
  \/ (n.nud_state = NUD_INCOMPLETE /\ jiffies <= n.used + tbl.parms.retrans_time)

\* C9: neither neigh_forced_gc nor neigh_periodic_timer unlinks an entry
\* whose reference count is greater than 1, an entry in PERMANENT state, or
\* an INCOMPLETE entry still within parms->retrans_time of its last use.
C9_GcSpares ==
  [][GcStep => \A e \in Linked \ Linked' : ~C9_Spared(neigh[e])]_vars

\* C9's case: a forced collection has gone through the table and left
\* linked an INCOMPLETE entry that only the table refers to, within
\* retrans_time of its last use
C9_Witness ==
  \E p \in Procs, e \in Linked :
     /\ ctx[p].pc = "alloc"
     /\ neigh[e].refcnt = 1
     /\ neigh[e].nud_state = NUD_INCOMPLETE
     /\ jiffies <= neigh[e].used + tbl.parms.retrans_time

(***************************************************************************)
(* Claims on the FAILED state, checked under SpecQueue.                    *)
(***************************************************************************)
\* the step makes the entry e FAILED
EntersFailed(e) ==
  /\ neigh[e].alloc /\ neigh[e].nud_state # NUD_FAILED
  /\ neigh'[e].alloc /\ neigh'[e].nud_state = NUD_FAILED

\* the packets that, after the step, the handler of e is handing or is yet
\* to hand to error_report
BeingReported(e) ==
  IF tmr'[e].pc = "report"
  THEN {tmr'[e].skb} \cup Range(neigh'[e].arp_queue)
  ELSE {}

\* no packet was handed to error_report twice
ReportedOnce ==
  \A i, j \in DOMAIN net.reported : net.reported[i] = net.reported[j] => i = j

\* C11: whenever an entry enters FAILED, by whatever path, every packet then
\* on its queue is passed to error_report: the step that makes the entry
\* FAILED leaves each of them with the reporting loop, the loop loses none of
\* them while the entry stays FAILED, and no packet is reported twice.
C11_FailedReportsQueue ==
  /\ []ReportedOnce
  /\ [][\A e \in Slots :
          /\ EntersFailed(e) => Range(neigh[e].arp_queue) \subseteq BeingReported(e)
          /\ (tmr[e].pc = "report" /\ neigh[e].nud_state = NUD_FAILED)
                => Range(neigh[e].arp_queue)
                      \subseteq (BeingReported(e) \cup Range(net'.reported))]_vars

\* C11's case: an entry is FAILED by an update, not by its timer, with a
\* packet on its queue that nobody reports
C11_Witness ==
  \E e \in Slots :
     /\ neigh[e].alloc
     /\ neigh[e].nud_state = NUD_FAILED
     /\ neigh[e].arp_queue # <<>>
     /\ tmr[e].pc = "idle"
     /\ Range(neigh[e].arp_queue) \cap Range(net.reported) = {}

(***************************************************************************)
(* Claims on neigh_update, checked under SpecQueue.                        *)
(***************************************************************************)
\* the step is p's call neigh_update(entry, a, NUD_REACHABLE, OVERRIDE) on an
\* entry whose state is not valid
UpdateReachable(p, a) ==
  /\ ctx[p].pc = "idle"
  /\ ctx[p].ref # NULL
  /\ neigh[ctx[p].ref].nud_state \notin NUD_VALID
  /\ neigh_update(p, a, NUD_REACHABLE, LearnFlags)

\* what C12 says of the critical section that changes the state
C12_StateChange(p, a) ==
  LET e == ctx[p].ref
      q == neigh[e].arp_queue
  IN  /\ neigh'[e].nud_state = NUD_REACHABLE
      /\ neigh'[e].ha = a
      /\ neigh'[e].output = "neigh_connected_output"
      /\ neigh'[e].timer
      /\ IF q = <<>>
         THEN ctx'[p].pc = "idle" /\ ctx'[p].rc = 0 /\ neigh'[e].arp_queue = <<>>
         ELSE /\ ctx'[p].pc = "update_output"
              /\ ctx'[p].skb = Head(q)
              /\ neigh'[e].arp_queue = Tail(q)

\* what C12 says of the hand-over of a queued packet and of the return
C12_Drain(p) ==
  LET e == ctx[p].ref
  IN  \* the packet goes to the output function after all that were queued
      \* before it
      /\ net'.output = Append(net.output, ctx[p].skb)
      /\ \A k \in Range(net.output) : k < ctx[p].skb
      \* at the return the queue is empty and none of its packets was
      \* thrown away
      /\ ctx'[p].pc = "idle"
           => /\ ctx'[p].rc = 0
              /\ neigh'[e].arp_queue = <<>>
              /\ Range(neigh[e].arp_queue) \cap net'.freed = {}
              /\ neigh'[e].nud_state \in NUD_VALID

\* C12: neigh_update(entry, A, REACHABLE, OVERRIDE) on an entry whose state
\* is not valid returns 0 and leaves the entry REACHABLE with address A, the
\* connected output installed, its timer armed and its queue empty, all the
\* packets that were queued having gone to the output function in order.
C12_UpdateToReachable ==
  [][\A p \in Procs :
       /\ \A a \in Addrs : UpdateReachable(p, a) => C12_StateChange(p, a)
       /\ (ctx[p].pc = "update_output" /\ ctx'[p] # ctx[p] /\ ~net'.oops)
             => C12_Drain(p)]_vars

\* C12's case: an update to REACHABLE has handed over a queued packet and
\* returned 0
C12_Witness ==
  \E p \in Procs :
     /\ ctx[p].pc = "idle"
     /\ ctx[p].ref # NULL
     /\ ctx[p].rc = 0
     /\ neigh[ctx[p].ref].nud_state = NUD_REACHABLE
     /\ neigh[ctx[p].ref].arp_queue = <<>>
     /\ net.output # <<>>

(***************************************************************************)
(* Claims on the sweeps and on neigh_lookup, checked under Spec.           *)
(***************************************************************************)
\* the reference of e's pending timer, which neigh_del_timer gives back
TimerRef(e) ==
  IF neigh[e].timer /\ neigh[e].nud_state \in NUD_IN_TIMER THEN 1 ELSE 0

\* what C13 says of an entry e of the device, whatever the step
C13_Entry(e) ==
  /\ e \notin Linked'
  /\ IF neigh[e].refcnt - TimerRef(e) = 1
     THEN \* only the table's reference: destroyed
          ~neigh'[e].alloc
     ELSE \* still in use: demoted, and kept for its users
          /\ neigh'[e].alloc
          /\ neigh'[e].dead = 1
          /\ neigh'[e].refcnt = neigh[e].refcnt - TimerRef(e) - 1
          /\ neigh'[e].refcnt >= 1
          /\ neigh'[e].arp_queue = <<>>
          /\ neigh'[e].output = "neigh_blackhole"
          /\ neigh'[e].nud_state = IF neigh[e].nud_state \in NUD_VALID
                                   THEN NUD_NOARP ELSE NUD_NONE
          /\ ~neigh'[e].timer

C14_LookupOnlyHolds ==
  [][\A p \in Procs, k \in Keys, d \in Devs :
       neigh_lookup(p, k, d) =>
          LET n == ctx'[p].ref
          IN  /\ tbl' = tbl
              /\ IF LinkedFor(k, d) = {}
                 THEN n = NULL /\ neigh' = neigh
                 ELSE /\ n \in Linked
                      /\ neigh[n].key = k /\ neigh[n].dev = d
                      /\ neigh[n].dead = 0
                      /\ neigh' = [neigh EXCEPT ![n].refcnt = neigh[n].refcnt + 1]]_vars

\* C14's case: two users hold the one linked entry, the table's reference
\* and theirs are counted
C14_Witness ==
  \E p, q \in Procs :
     /\ p # q
     /\ ctx[p].pc = "idle" /\ ctx[q].pc = "idle"
     /\ ctx[p].ref # NULL
     /\ ctx[q].ref = ctx[p].ref
     /\ ctx[p].ref \in Linked
     /\ neigh[ctx[p].ref].refcnt = 3
     /\ tbl.entries = 1

(***************************************************************************)
(* SpecCreate: creators whose constructor or device set-up can fail, the   *)
(* release of the device's parameter block and forced collection.          *)
(***************************************************************************)
NextCreate ==
  \/ \E p \in Procs, k \in Keys, d \in Devs, cerr \in {0, -EPERM}, serr \in {0, -ENOBUFS} :
        neigh_create(p, k, d, TRUE, cerr, serr)
  \/ \E p \in Procs : neigh_forced_gc(p)
  \/ \E p \in Procs, cerr \in {0, -EPERM}, serr \in {0, -ENOBUFS} :
        neigh_alloc(p, TRUE, cerr, serr)
  \/ \E p \in Procs : neigh_create_link(p)
  \/ \E p \in Procs, k \in Keys, d \in Devs : neigh_lookup(p, k, d)
  \/ \E p \in Procs : neigh_put(p)
  \/ neigh_parms_release
  \/ \E d \in Devs : neigh_changeaddr(d)
  \/ Tick(MaxJiffies)

SpecCreate == Init /\ [][NextCreate]_vars

\* the step is the part of p's neigh_create that allocates the entry and
\* calls the constructor and the device's neigh_setup, and one of them fails
SetupFails(p, cerr, serr) ==
  /\ cerr < 0 \/ serr < 0
  /\ \E e \in Slots : ~neigh[e].alloc
  /\ \/ /\ ctx[p].pc = "idle" /\ ~NeedForcedGc
        /\ \E k \in Keys, d \in Devs : neigh_create(p, k, d, TRUE, cerr, serr)
     \/ /\ ctx[p].pc = "alloc" /\ ~(ctx[p].shrunk = 0 /\ tbl.entries > tbl.gc_thresh3)
        /\ neigh_alloc(p, TRUE, cerr, serr)

\* the step is p's neigh_create finding the parameters dead under the lock
ParmsDead(p) ==
  /\ ctx[p].pc = "link"
  /\ tbl.parms.dead
  /\ neigh_create_link(p)

UpdateAddrs == 0..MaxUpdateAddr

\* the flag sets of neigh_update's callers: the protocols' (none, OVERRIDE
\* with or without the router flags, WEAK_OVERRIDE) and netlink's (ADMIN
\* with or without OVERRIDE)
UpdateFlags ==
  {{}, {NEIGH_UPDATE_F_OVERRIDE}, {NEIGH_UPDATE_F_WEAK_OVERRIDE},
   {NEIGH_UPDATE_F_OVERRIDE, NEIGH_UPDATE_F_OVERRIDE_ISROUTER, NEIGH_UPDATE_F_ISROUTER},
   {NEIGH_UPDATE_F_ADMIN}, {NEIGH_UPDATE_F_OVERRIDE, NEIGH_UPDATE_F_ADMIN}}

\* the one user context that acts in SpecUpdate: it races with the timer only
Updaters == {1}

\* the new states proposed: the ones the protocols and netlink pass
UpdateStates == NudStates \ {NUD_DELAY, NUD_PROBE}

NextUpdate ==
  \/ \E p \in Updaters, k \in Keys, d \in Devs : neigh_create(p, k, d, TRUE, 0, 0)
  \/ \E p \in Updaters : neigh_create_link(p)
  \/ \E p \in Updaters, lladdr \in UpdateAddrs, new \in UpdateStates, flags \in UpdateFlags :
        neigh_update(p, lladdr, new, flags)
  \/ \E p \in Updaters : __neigh_event_send(p, NULL, FALSE)
  \/ \E e \in Slots : timer_expire(e)
  \/ \E e \in Slots : neigh_timer_handler(e)
  \/ \E e \in Slots : neigh_timer_solicit(e)
  \/ Tick(MaxJiffies)

SpecUpdate == Init /\ [][NextUpdate]_vars

\* the flag sets without ADMIN
NonAdminFlags == {f \in UpdateFlags : NEIGH_UPDATE_F_ADMIN \notin f}

\* neigh_update lets the call through: ADMIN, or an entry that is neither
\* NOARP nor PERMANENT
Permitted(n, flags) ==
  NEIGH_UPDATE_F_ADMIN \in flags \/ n.nud_state \notin {NUD_NOARP, NUD_PERMANENT}

\* the fields of an entry that C16 names are the same before and after
EntryUntouched(e) ==
  /\ neigh'[e].nud_state = neigh[e].nud_state
  /\ neigh'[e].ha = neigh[e].ha
  /\ neigh'[e].flags = neigh[e].flags
  /\ neigh'[e].confirmed = neigh[e].confirmed
  /\ neigh'[e].updated = neigh[e].updated
  /\ neigh'[e].used = neigh[e].used
  /\ neigh'[e].timer = neigh[e].timer
  /\ neigh'[e].expires = neigh[e].expires
  /\ neigh'[e].arp_queue = neigh[e].arp_queue

\* C16: neigh_update without the ADMIN flag on an entry in the NOARP or
\* PERMANENT state returns -EPERM and leaves the entry's state, address,
\* flags, timestamps, timer and queue as they were.
C16_LockedRejects ==
  [][\A p \in Procs :
       (/\ ctx[p].ref # NULL
        /\ neigh[ctx[p].ref].nud_state \in {NUD_NOARP, NUD_PERMANENT}
        /\ \E lladdr \in UpdateAddrs, new \in UpdateStates, flags \in NonAdminFlags :
              neigh_update(p, lladdr, new, flags))
          => /\ ctx'[p].rc = -EPERM
             /\ EntryUntouched(ctx[p].ref)]_vars

\* C16's case: a caller without ADMIN was turned away from a PERMANENT entry
C16_Witness ==
  \E p \in Procs :
     /\ ctx[p].pc = "idle"
     /\ ctx[p].ref # NULL
     /\ ctx[p].rc = -EPERM
     /\ neigh[ctx[p].ref].nud_state = NUD_PERMANENT
     /\ neigh[ctx[p].ref].ha # NULL

\* the step is an update with the ADMIN flag of the entry e
AdminUpdate(e) ==
  \E p \in Procs :
     /\ ctx[p].ref = e
     /\ \E lladdr \in UpdateAddrs, new \in UpdateStates, flags \in UpdateFlags \ NonAdminFlags :
           neigh_update(p, lladdr, new, flags)

\* C17: an entry in the PERMANENT or NOARP state changes its state or its
\* address only by an update with the ADMIN flag or by neigh_ifdown: no
\* timer, no __neigh_event_send and no update without ADMIN changes them.
C17_LockedStays ==
  [][\A e \in Slots :
       (/\ neigh[e].alloc /\ neigh'[e].alloc
        /\ neigh[e].nud_state \in {NUD_NOARP, NUD_PERMANENT}
        /\ (neigh'[e].nud_state # neigh[e].nud_state \/ neigh'[e].ha # neigh[e].ha))
          => (AdminUpdate(e) \/ \E d \in Devs : neigh_ifdown(d))]_vars

\* C17's case: the timer of an entry has run while the entry was PERMANENT
\* and a sender has used the entry
C17_Witness ==
  \E p \in Procs :
     /\ ctx[p].ref # NULL
     /\ ctx[p].rc = 0
     /\ neigh[ctx[p].ref].nud_state = NUD_PERMANENT
     /\ jiffies > neigh[ctx[p].ref].updated
     /\ tmr[ctx[p].ref].pc = "run"

\* what C18 says of an update of the valid entry e with the valid state new
\* and the address lladdr, which is not the cached one
C18_Outcome(e, lladdr, new, flags) ==
  IF NEIGH_UPDATE_F_OVERRIDE \in flags
  THEN neigh'[e].ha = lladdr /\ neigh'[e].nud_state = new
  ELSE IF NEIGH_UPDATE_F_WEAK_OVERRIDE \in flags /\ neigh[e].nud_state \in NUD_CONNECTED
  THEN neigh'[e].ha = neigh[e].ha /\ neigh'[e].nud_state = NUD_STALE
  ELSE neigh'[e].ha = neigh[e].ha /\ neigh'[e].nud_state = neigh[e].nud_state

\* the addresses other than the cached one, and the valid new states
OtherAddrs(e) == UpdateAddrs \ {NULL, neigh[e].ha}
ValidStates == UpdateStates \cap NUD_VALID

\* C18 as stated: for neigh_update on a valid entry with a valid new state
\* and a supplied address that differs from the cached one (the device's
\* addresses have a length, or no two differ), OVERRIDE replaces
\* the address and sets the new state; WEAK_OVERRIDE without OVERRIDE on a
\* connected entry keeps the address and makes the entry STALE; in every
\* other case address and state stay as they were.
C18_Override ==
  [][\A p \in Procs :
       (/\ ctx[p].ref # NULL
        /\ neigh[ctx[p].ref].nud_state \in NUD_VALID
        /\ addr_len(neigh[ctx[p].ref].dev) # 0) =>
         \A lladdr \in OtherAddrs(ctx[p].ref), new \in ValidStates, flags \in UpdateFlags :
            \/ C18_Outcome(ctx[p].ref, lladdr, new, flags)
            \/ ~neigh_update(p, lladdr, new, flags)]_vars

\* address and state of e are as they were
AddressAndStateKept(e) ==
  neigh'[e].ha = neigh[e].ha /\ neigh'[e].nud_state = neigh[e].nud_state

\* C18 for the updates that neigh_update lets through: the same, when the
\* call has the ADMIN flag or the entry is neither NOARP nor PERMANENT; a
\* call that is not let through changes neither the address nor the state.
C18_OverridePermitted ==
  [][\A p \in Procs :
       (/\ ctx[p].ref # NULL
        /\ neigh[ctx[p].ref].nud_state \in NUD_VALID
        /\ addr_len(neigh[ctx[p].ref].dev) # 0) =>
         \A lladdr \in OtherAddrs(ctx[p].ref), new \in ValidStates, flags \in UpdateFlags :
            \/ IF Permitted(neigh[ctx[p].ref], flags)
               THEN C18_Outcome(ctx[p].ref, lladdr, new, flags)
               ELSE AddressAndStateKept(ctx[p].ref)
            \/ ~neigh_update(p, lladdr, new, flags)]_vars

\* C18's case: an update that proposed another address has made a connected
\* entry STALE, and the entry keeps its address
C18_Witness ==
  \E p \in Procs :
     /\ ctx[p].ref # NULL
     /\ ctx[p].rc = 0
     /\ neigh[ctx[p].ref].ha = MaxUpdateAddr
     /\ neigh[ctx[p].ref].nud_state = NUD_STALE
     /\ neigh[ctx[p].ref].confirmed = jiffies
     /\ neigh[ctx[p].ref].updated = jiffies

\* C19: neigh_update with a new state that is not valid, when it is let
\* through, cancels the entry's timer, removes the connected output if the
\* old state was connected, sets nud_state to the new state and returns 0;
\* the cached address is not touched.
C19_ToInvalid ==
  [][\A p \in Procs :
       ctx[p].ref # NULL =>
         \A lladdr \in UpdateAddrs, new \in UpdateStates \ NUD_VALID, flags \in UpdateFlags :
            (Permitted(neigh[ctx[p].ref], flags) /\ neigh_update(p, lladdr, new, flags))
               => /\ ctx'[p].rc = 0
                  /\ neigh'[ctx[p].ref].nud_state = new
                  /\ neigh'[ctx[p].ref].ha = neigh[ctx[p].ref].ha
                  /\ ~neigh'[ctx[p].ref].timer
                  /\ neigh[ctx[p].ref].nud_state \in NUD_CONNECTED
                        => neigh'[ctx[p].ref].output = "neigh_resolve_output"]_vars

\* an entry left outside the timer states by an update, its timer pending
C19_Witness ==
  \E p \in Procs :
     /\ ctx[p].pc = "idle"
     /\ ctx[p].ref # NULL
     /\ ctx[p].rc = 0
     /\ neigh[ctx[p].ref].nud_state = NUD_NONE
     /\ neigh[ctx[p].ref].timer

(***************************************************************************)
(* SpecAlloc: neigh_alloc's threshold test, with gc_thresh2 and gc_thresh3 *)
(* as the sysctl has set them and the clock running past                   *)
(* last_flush + 5 * HZ.                                                    *)
(***************************************************************************)
InitAlloc ==
  /\ \E thresh2 \in 0..MaxThresh, thresh3 \in 0..MaxThresh :
        tbl = neigh_table_init(Parms(UcastProbes, AppProbes, McastProbes, QueueLen,
                                     RetransTime, BaseReachableTime, DelayProbeTime,
                                     GcStaleTime),
                               0, thresh2, thresh3, GcInterval)
  /\ InitRest

NextAlloc ==
  \/ \E p \in Procs, k \in Keys, d \in Devs : neigh_create(p, k, d, TRUE, 0, 0)
  \/ \E p \in Procs : neigh_forced_gc(p)
  \/ \E p \in Procs : neigh_alloc(p, TRUE, 0, 0)
  \/ \E p \in Procs : neigh_create_link(p)
  \/ \E p \in Procs : neigh_put(p)
  \/ Tick(MaxFlushJiffies)

SpecAlloc == InitAlloc /\ [][NextAlloc]_vars

\* neigh_alloc's threshold test runs in the step
AllocTests(p) ==
  /\ ctx[p].pc = "idle"
  /\ ctx[p].ref = NULL
  /\ ctx'[p] # ctx[p]
  /\ \E k \in Keys, d \in Devs : neigh_create(p, k, d, TRUE, 0, 0)

\* C20 as stated: neigh_alloc invokes neigh_forced_gc exactly when the table
\* size exceeds gc_thresh2 and either the last flush is at most 5 seconds
\* old or the size also exceeds gc_thresh3.
C20_ForcedGcWhen ==
  [][\A p \in Procs :
       AllocTests(p) =>
         (ctx'[p].pc = "forced_gc"
            <=> /\ tbl.entries > tbl.gc_thresh2
                /\ \/ jiffies - tbl.last_flush <= 5 * HZ
                   \/ tbl.entries > tbl.gc_thresh3)]_vars

\* C20, amended: neigh_alloc invokes neigh_forced_gc exactly when the table
\* size exceeds gc_thresh3, or exceeds gc_thresh2 with the last flush more
\* than 5 seconds old.
C20_ForcedGcWhenStale ==
  [][\A p \in Procs :
       AllocTests(p) =>
         (ctx'[p].pc = "forced_gc"
            <=> \/ tbl.entries > tbl.gc_thresh3
                \/ /\ tbl.entries > tbl.gc_thresh2
                   /\ jiffies - tbl.last_flush > 5 * HZ)]_vars

\* a forced collection started between the thresholds, the last flush more
\* than 5 seconds old
C20_Witness ==
  \E p \in Procs :
     /\ ctx[p].pc = "forced_gc"
     /\ tbl.entries > tbl.gc_thresh2
     /\ tbl.entries <= tbl.gc_thresh3
     /\ jiffies - tbl.last_flush > 5 * HZ

\* p's call allocates an entry in the step
Allocates(p) ==
  /\ ctx[p].pc \in {"idle", "alloc"}
  /\ ctx'[p] # ctx[p]
  /\ \E e \in Slots : ~neigh[e].alloc /\ neigh'[e].alloc

\* C21: when tbl->entries still exceeds gc_thresh3 after the forced
\* collection that an allocation ran, neigh_alloc fails, neigh_create returns
\* -ENOBUFS and no entry is added; no allocation succeeds while the size is
\* above gc_thresh3.
C21_HardMaximum ==
  [][\A p \in Procs :
       /\ (ctx[p].pc = "alloc" /\ ctx'[p] # ctx[p] /\ tbl.entries > tbl.gc_thresh3)
             => /\ ctx'[p].pc = "idle"
                /\ ctx'[p].rc = -ENOBUFS
                /\ neigh' = neigh
                /\ tbl'.entries = tbl.entries
       /\ Allocates(p) => tbl.entries <= tbl.gc_thresh3]_vars

\* back from a forced collection that evicted an entry, with the table
\* above gc_thresh3
C21_Witness ==
  \E p \in Procs :
     /\ ctx[p].pc = "alloc"
     /\ ctx[p].shrunk = 1
     /\ tbl.entries > tbl.gc_thresh3

(***************************************************************************)
(* SpecProxy: arrivals on the proxy queue from concurrent receivers, the   *)
(* proxy timer and the clock.                                              *)
(***************************************************************************)
NextProxy ==
  \/ \E p \in Procs, d \in Devs, rnd \in 0..MaxRandom : pneigh_enqueue(p, d, rnd)
  \/ \E p \in Procs : pneigh_enqueue_locked(p)
  \/ proxy_timer_expire
  \/ \E up \in SUBSET Devs : neigh_proxy_process(up)
  \/ Tick(MaxProxyJiffies)

SpecProxy == Init /\ [][NextProxy]_vars

\* C22: the proxy queue is never longer than parms->proxy_qlen; a
\* pneigh_enqueue that would take it past that drops the packet at once and
\* leaves the queue and the proxy timer as they were.
C22_ProxyQueueBounded ==
  /\ [](Len(tbl.proxy_queue) <= tbl.parms.proxy_qlen)
  /\ [][\A p \in Procs :
          (/\ Len(tbl.proxy_queue) >= tbl.parms.proxy_qlen
           /\ \E d \in Devs, rnd \in 0..MaxRandom : pneigh_enqueue(p, d, rnd))
             => /\ net.nskb \in net'.freed
                /\ ctx'[p].pc = "idle"
                /\ tbl' = tbl]_vars

\* a proxy queue longer than parms->proxy_qlen
C22_Witness == Len(tbl.proxy_queue) > tbl.parms.proxy_qlen

(***************************************************************************)
(* SpecDump: a netlink dump, resumed call after call, over tables that do  *)
(* not change; the tables, the family asked for and the room of each       *)
(* message are drawn from bounded sets.                                    *)
(***************************************************************************)
Families == 1..MaxFamily

\* a table of the given family whose chain h holds len[h] entries; the
\* entries are named by table, bucket and place
DumpTable(t, family, len) ==
  [family |-> family,
   hash_buckets |-> [h \in Buckets |-> [i \in 1..len[h] |-> <<t, h, i>>]]]

InitDump ==
  /\ tbl = neigh_table_init(Parms(UcastProbes, AppProbes, McastProbes, QueueLen,
                                  RetransTime, BaseReachableTime, DelayProbeTime,
                                  GcStaleTime),
                            0, GcThresh2, GcThresh3, GcInterval)
  /\ jiffies = 0
  /\ neigh = [e \in Slots |-> FreeNeigh]
  /\ ctx = [p \in Procs |-> IdleCtx]
  /\ tmr = [e \in Slots |-> IdleTmr]
  /\ \E n \in 0..MaxTables, family \in {0} \cup Families :
       \E fam \in [1..n -> Families], len \in [1..n -> [Buckets -> 0..MaxChain]] :
          net = [InitNet EXCEPT
                   !.dump = [IdleDump EXCEPT
                               !.neigh_tables = [t \in 1..n |-> DumpTable(t, fam[t], len[t])],
                               !.family = family]]

NextDump == \E cap \in 1..MaxFill : neigh_dump_info(cap)

SpecDump == InitDump /\ [][NextDump]_vars

\* the entries of the tables the dump selects
Selected ==
  LET d == net.dump
  IN  UNION {UNION {Range(d.neigh_tables[t].hash_buckets[h]) : h \in Buckets} :
             t \in {u \in 1..Len(d.neigh_tables) :
                      d.family = 0 \/ d.neigh_tables[u].family = d.family}}

\* C23: a dump that stops part-way and is resumed from the saved cursor over
\* unchanged tables emits every entry of every selected table exactly once
\* over its calls, and then ends with an empty message.
C23_DumpResumes ==
  LET d == net.dump
  IN  /\ \A i, j \in 1..Len(d.emitted) : d.emitted[i] = d.emitted[j] => i = j
      /\ Range(d.emitted) \subseteq Selected
      /\ d.done => Range(d.emitted) = Selected
      /\ d.calls <= Cardinality(Selected) + 1
      /\ (~d.done /\ d.calls > 0) => Len(d.emitted) >= d.calls

\* a dump of two tables that took more than two messages and has ended, one
\* chain holding two entries
C23_Witness ==
  LET d == net.dump
  IN  /\ d.done
      /\ d.calls > 3
      /\ Len(d.neigh_tables) = 2
      /\ d.family = 0
      /\ \E t \in 1..2, h \in Buckets : Len(d.neigh_tables[t].hash_buckets[h]) = 2
      /\ Range(d.emitted) = Selected

(***************************************************************************)
(* SpecTimer: one entry driven through REACHABLE, STALE, DELAY and PROBE   *)
(* by confirmations, sends and its timer, with delay_probe_time and        *)
(* ucast_probes as the sysctls have set them and the clock running past    *)
(* the windows.                                                            *)
(***************************************************************************)
InitTimer ==
  /\ \E ucast \in 0..UcastProbes, delay \in 0..MaxDelayProbeTime :
        tbl = neigh_table_init(Parms(ucast, AppProbes, McastProbes, QueueLen,
                                     RetransTime, BaseReachableTime, delay,
                                     GcStaleTime),
                               0, GcThresh2, GcThresh3, GcInterval)
  /\ InitRest

NextTimer ==
  \/ \E p \in Updaters, k \in Keys, d \in Devs : neigh_create(p, k, d, TRUE, 0, 0)
  \/ \E p \in Updaters : neigh_create_link(p)
  \/ \E p \in Updaters, new \in {NUD_REACHABLE, NUD_STALE} :
        neigh_update(p, MaxAddr, new, LearnFlags)
  \/ \E p \in Updaters : __neigh_event_send(p, NULL, FALSE)
  \/ \E e \in Slots : timer_expire(e)
  \/ \E e \in Slots : neigh_timer_handler(e)
  \/ \E e \in Slots : neigh_timer_solicit(e)
  \/ Tick(MaxTimerJiffies)

SpecTimer == InitTimer /\ [][NextTimer]_vars

\* the handler of e's timer runs its critical section in the step
HandlerRuns(e) == tmr[e].pc = "run" /\ neigh_timer_handler(e)

\* the expiry the handler gives a timer it arms for t: never less than HZ/2
\* from now
NotBefore(t) == IF t < jiffies + HZ \div 2 THEN jiffies + HZ \div 2 ELSE t

\* the end of e's reachable-time window
WindowEnd(e) == neigh[e].confirmed + tbl.parms.reachable_time

\* C24 as stated: when the timer fires for a REACHABLE entry whose window
\* confirmed + reachable_time has elapsed the entry moves to DELAY; while the
\* window has not elapsed it stays REACHABLE and the timer is re-armed for the
\* end of the window.
C24_ReachableFires ==
  [][\A e \in Slots :
       (neigh[e].nud_state = NUD_REACHABLE /\ HandlerRuns(e)) =>
          IF jiffies > WindowEnd(e)
          THEN neigh'[e].nud_state = NUD_DELAY
          ELSE /\ neigh'[e].nud_state = NUD_REACHABLE
               /\ neigh'[e].timer
               /\ neigh'[e].expires = WindowEnd(e)]_vars

\* C24, amended: with the window elapsed the entry moves to DELAY, its timer
\* armed for delay_probe_time, only if it was used within delay_probe_time,
\* and to STALE otherwise, the connected output removed in both cases; while
\* the window has not elapsed it stays REACHABLE and the timer is re-armed for
\* the end of the window, at least HZ/2 from now.
C24_ReachableFiresUsed ==
  [][\A e \in Slots :
       (neigh[e].nud_state = NUD_REACHABLE /\ HandlerRuns(e)) =>
          IF jiffies > WindowEnd(e)
          THEN /\ neigh'[e].output = "neigh_resolve_output"
               /\ IF jiffies <= neigh[e].used + tbl.parms.delay_probe_time
                  THEN /\ neigh'[e].nud_state = NUD_DELAY
                       /\ neigh'[e].timer
                       /\ neigh'[e].expires = NotBefore(jiffies + tbl.parms.delay_probe_time)
                  ELSE neigh'[e].nud_state = NUD_STALE
          ELSE /\ neigh'[e].nud_state = NUD_REACHABLE
               /\ neigh'[e].timer
               /\ neigh'[e].expires = NotBefore(WindowEnd(e))]_vars

\* the timer has fired for a REACHABLE entry that was used within
\* delay_probe_time and whose window has elapsed
C24_Witness ==
  \E e \in Slots :
     /\ tmr[e].pc = "run"
     /\ neigh[e].nud_state = NUD_REACHABLE
     /\ jiffies > WindowEnd(e)
     /\ jiffies <= neigh[e].used + tbl.parms.delay_probe_time

\* C25 as stated: when the timer fires for a DELAY entry, the entry returns
\* to REACHABLE with the connected output if it was confirmed within
\* delay_probe_time, and otherwise moves to PROBE with the probe counter 0 and
\* the timer re-armed for retrans_time; it is never left in DELAY.
C25_DelayFires ==
  [][\A e \in Slots :
       (neigh[e].nud_state = NUD_DELAY /\ HandlerRuns(e)) =>
          IF jiffies <= neigh[e].confirmed + tbl.parms.delay_probe_time
          THEN /\ neigh'[e].nud_state = NUD_REACHABLE
               /\ neigh'[e].output = "neigh_connected_output"
          ELSE /\ neigh'[e].nud_state = NUD_PROBE
               /\ neigh'[e].probes = 0
               /\ neigh'[e].timer
               /\ neigh'[e].expires = jiffies + tbl.parms.retrans_time]_vars

\* C25, amended: the same, except that with no unicast probes configured
\* (neigh_max_probes of a PROBE entry is ucast_probes) the entry goes on from
\* PROBE to FAILED in the same run of the handler, and that the timer is armed
\* at least HZ/2 from now.
C25_DelayFiresBudget ==
  [][\A e \in Slots :
       (neigh[e].nud_state = NUD_DELAY /\ HandlerRuns(e)) =>
          IF jiffies <= neigh[e].confirmed + tbl.parms.delay_probe_time
          THEN /\ neigh'[e].nud_state = NUD_REACHABLE
               /\ neigh'[e].output = "neigh_connected_output"
          ELSE IF tbl.parms.ucast_probes = 0
          THEN neigh'[e].nud_state = NUD_FAILED
          ELSE /\ neigh'[e].nud_state = NUD_PROBE
               /\ neigh'[e].probes = 0
               /\ neigh'[e].timer
               /\ neigh'[e].expires = NotBefore(jiffies + tbl.parms.retrans_time)]_vars

\* the timer has fired for a DELAY entry that was not confirmed within
\* delay_probe_time, with probes to send
C25_Witness ==
  \E e \in Slots :
     /\ tmr[e].pc = "run"
     /\ neigh[e].nud_state = NUD_DELAY
     /\ jiffies > neigh[e].confirmed + tbl.parms.delay_probe_time
     /\ tbl.parms.ucast_probes > 0

\* p's __neigh_event_send returns rc in the step
SendReturns(p, rc) == ctx'[p].pc = "idle" /\ ctx'[p].rc = rc

NextPath ==
  \/ \E p \in Updaters, k \in Keys, d \in Devs : neigh_create(p, k, d, TRUE, 0, 0)
  \/ \E p \in Updaters : neigh_create_link(p)
  \/ \E p \in Updaters, lladdr \in {NULL, MaxAddr}, new \in UpdateStates,
        flags \in {LearnFlags, AdminFlags} : neigh_update(p, lladdr, new, flags)
  \/ \E p \in Updaters : __neigh_event_send(p, NULL, FALSE)
  \/ \E e \in Slots : timer_expire(e)
  \/ \E e \in Slots : neigh_timer_handler(e)
  \/ \E e \in Slots : neigh_timer_solicit(e)
  \/ \E d \in Devs : neigh_ifdown(d)
  \/ Tick(MaxJiffies)

SpecPath == Init /\ [][NextPath]_vars

\* the connected fast path is installed on e exactly when e's state is a
\* connected one
FastPathFollowsState(e) ==
  neigh[e].output = "neigh_connected_output" <=> neigh[e].nud_state \in NUD_CONNECTED

TimerRefs(e) ==
  (IF neigh[e].timer THEN 1 ELSE 0) + (IF tmr[e].pc # "idle" THEN 1 ELSE 0)

\* the memory of e is returned to the cache in the step
Freed(e) == neigh[e].alloc /\ ~neigh'[e].alloc

\* C28: an entry is never freed while its timer is armed.  The armed timer
\* and the running handler each hold a reference; a step that frees an entry
\* whose timer was pending is one that deleted the timer first and dropped
\* the table's reference after it; a neigh_del_timer that finds the timer
\* pending gives back exactly the timer's reference; the handler gives back
\* its reference at its end.
C28_TimerHoldsEntry ==
  /\ [](\A e \in Slots : neigh[e].alloc => neigh[e].refcnt >= TimerRefs(e))
  /\ [](\A e \in Slots : (neigh[e].timer \/ tmr[e].pc # "idle") => neigh[e].alloc)
  /\ [][\A e \in Slots :
          /\ (Freed(e) /\ neigh[e].timer)
                => /\ neigh[e].nud_state \in NUD_IN_TIMER
                   /\ e \in Linked /\ e \notin Linked'
                   /\ neigh[e].refcnt = 2
          /\ (neigh[e].timer /\ ~neigh'[e].timer /\ neigh'[e].alloc /\ tmr'[e] = tmr[e])
                => /\ neigh[e].nud_state \in NUD_IN_TIMER
                   /\ neigh'[e].refcnt =
                        neigh[e].refcnt - 1
                          - (IF e \in Linked /\ e \notin Linked' THEN 1 ELSE 0)
          /\ (tmr[e].pc # "idle" /\ tmr'[e].pc = "idle" /\ neigh'[e].alloc)
                => neigh'[e].refcnt =
                     neigh[e].refcnt - 1
                       + (IF neigh'[e].timer /\ tmr[e].pc = "run"
                             /\ neigh'[e].nud_state \in NUD_IN_TIMER THEN 1 ELSE 0)]_vars

\* the handler of a dead entry is about to run, its reference the last one
C28_Witness ==
  \E e \in Slots :
     /\ tmr[e].pc = "run"
     /\ neigh[e].alloc
     /\ neigh[e].dead = 1
     /\ neigh[e].refcnt = 1
     /\ ~neigh[e].timer

\* the handler leaves e as it found it: no transition, no solicitation, no
\* error report, no timer armed, only its reference given back
HandlerLeavesAlone(e) ==
  /\ tmr'[e].pc = "idle"
  /\ net'.reported = net.reported
  /\ neigh'[e].alloc =>
        /\ neigh'[e].nud_state = neigh[e].nud_state
        /\ neigh'[e].probes = neigh[e].probes
        /\ neigh'[e].timer = neigh[e].timer
        /\ neigh'[e].expires = neigh[e].expires
        /\ neigh'[e].refcnt = neigh[e].refcnt - 1

\* C29: a timer that fires on an entry already marked dead (unlinked while
\* the handler waited for the entry lock) makes no state transition, no
\* solicitation, no error report and does not re-arm the timer.
C29_DeadTimer ==
  [][\A e \in Slots :
        (HandlerRuns(e) /\ neigh[e].dead = 1) => HandlerLeavesAlone(e)]_vars

\* the handler of a dead entry is about to run on a state that has a timer
C29_Witness ==
  \E e \in Slots :
     /\ tmr[e].pc = "run"
     /\ neigh[e].alloc
     /\ neigh[e].dead = 1
     /\ neigh[e].nud_state \in NUD_IN_TIMER

\* The step is one of the scans that run inside write_lock_bh(&tbl->lock)
\* from their first unlink to their last neigh_release: neigh_forced_gc
\* (lines 119-145), neigh_periodic_timer, neigh_ifdown (lines 205-246) and
\* neigh_changeaddr (lines 178-198).
TableLockHeld ==
  \/ \E p \in Procs : neigh_forced_gc(p)
  \/ \E rnd \in 0..(BaseReachableTime - 1) : neigh_periodic_timer(rnd)
  \/ \E d \in Devs : neigh_ifdown(d)
  \/ \E d \in Devs : neigh_changeaddr(d)

\* neigh_destroy gets as far as (neigh->ops->destructor)(neigh) for e in the
\* step: the memory of e is given back right after it
DestructorCalled(e) == neigh[e].alloc /\ ~neigh'[e].alloc

\* neigh->ops->error_report(neigh, skb) is called in the step
BackendCalled == net'.reported # net.reported

\* C30: no callback of the protocol backend is made while tbl->lock is held:
\* a scan under the table lock calls neither the destructor nor error_report.
C30_NoCallbackUnderLock ==
  [][TableLockHeld => /\ \A e \in Slots : ~DestructorCalled(e)
                      /\ ~BackendCalled]_vars

\* an unreferenced entry is in the table, ready for a scan to drop it
C30_Witness ==
  \E e \in Linked : neigh[e].refcnt = 1 /\ neigh[e].nud_state = NUD_STALE

(***************************************************************************)
(* Updates of entries that have cached hardware headers.                   *)
(***************************************************************************)
Protocols == 1..MaxProtocols

NextHh ==
  \/ \E p \in Updaters, k \in Keys, d \in Devs : neigh_create(p, k, d, TRUE, 0, 0)
  \/ \E p \in Updaters : neigh_create_link(p)
  \/ \E p \in Updaters, lladdr \in UpdateAddrs,
        new \in {NUD_REACHABLE, NUD_STALE, NUD_PERMANENT, NUD_FAILED},
        flags \in {{}, LearnFlags, AdminFlags} : neigh_update(p, lladdr, new, flags)
  \/ \E p \in Updaters, protocol \in Protocols : neigh_hh_init(p, protocol)
  \/ \E e \in Slots : timer_expire(e)
  \/ \E e \in Slots : neigh_timer_handler(e)
  \/ Tick(MaxJiffies)

SpecHh == Init /\ [][NextHh]_vars

\* every cached header of n carries n's link-layer address
HeadersCarryAddress(n) == \A i \in 1..Len(n.hh) : n.hh[i].hh_data = n.ha

\* C31: when neigh_update changes the cached link-layer address it rewrites
\* every cached hardware header of the entry with the new address, and it
\* sets confirmed to now - 2 * base_reachable_time unless the new state is
\* connected, in which case confirmed is the time of the update.
C31_AddressChange ==
  [][\A p \in Updaters, lladdr \in UpdateAddrs, new \in UpdateStates, flags \in UpdateFlags :
        LET e == ctx[p].ref
        IN  (neigh_update(p, lladdr, new, flags) /\ neigh'[e].ha # neigh[e].ha)
               => /\ neigh'[e].ha = lladdr
                  /\ Len(neigh'[e].hh) = Len(neigh[e].hh)
                  /\ HeadersCarryAddress(neigh'[e])
                  /\ neigh'[e].confirmed =
                        IF new \in NUD_CONNECTED THEN jiffies
                        ELSE jiffies - 2 * tbl.parms.base_reachable_time]_vars

\* an entry with two cached headers has just been given another address by
\* an update to STALE
C31_Witness ==
  \E e \in Slots :
     /\ Len(neigh[e].hh) = 2
     /\ neigh[e].nud_state = NUD_STALE
     /\ neigh[e].ha = MaxUpdateAddr
     /\ HeadersCarryAddress(neigh[e])
     /\ neigh[e].updated = jiffies
     /\ neigh[e].confirmed = jiffies - 2 * tbl.parms.base_reachable_time

\* state, timer and output path of e are the same before and after the step
StateTimerOutputKept(e) ==
  /\ neigh'[e].nud_state = neigh[e].nud_state
  /\ neigh'[e].timer = neigh[e].timer
  /\ neigh'[e].expires = neigh[e].expires
  /\ neigh'[e].refcnt = neigh[e].refcnt
  /\ neigh'[e].output = neigh[e].output
  /\ neigh'[e].hh = neigh[e].hh

DueTimes == {x.stamp : x \in Range(tbl.proxy_queue)}

\* C33: whenever the proxy queue is not empty and no proxy handler is
\* running, the proxy timer is pending and expires no later than the earliest
\* due time on the queue; the handler takes every packet whose due time has
\* passed off the queue, to proxy_redo if its device is running and to
\* kfree_skb otherwise.
C33_ProxyTimer ==
  /\ []((tbl.proxy_queue # <<>> /\ ~tbl.proxy_timer.running)
           => /\ tbl.proxy_timer.pending
              /\ \A t \in DueTimes : tbl.proxy_timer.expires <= t)
  /\ [][\A up \in SUBSET Devs :
          neigh_proxy_process(up)
             => \A x \in Range(tbl.proxy_queue) :
                   IF x.stamp <= jiffies
                   THEN /\ x \notin Range(tbl'.proxy_queue)
                        /\ IF x.dev \in up
                           THEN x.skb \in Range(net'.redone) \ Range(net.redone)
                           ELSE x.skb \in net'.freed \ net.freed
                   ELSE x \in Range(tbl'.proxy_queue)]_vars

\* the handler has read the clock and waits for the queue lock while the
\* clock goes on to the due time of a queued packet
C33_Witness ==
  /\ tbl.proxy_timer.running
  /\ tbl.proxy_timer.now < jiffies
  /\ \E t \in DueTimes : tbl.proxy_timer.now < t /\ t <= jiffies

\* C34: under every interleaving of the timer handler, neigh_update and
\* __neigh_event_send on one entry the timer is never armed while it is
\* pending: the entry carries one reference for its pending timer, one for
\* its running handler and one for each other holder, and no more.
C34_TimerArmedOnce ==
  \A e \in Slots : neigh[e].alloc => neigh[e].refcnt = Holders(e)

\* neigh_update has armed the timer while the handler of the timer that
\* fired before waits for the entry lock
C34_Witness ==
  \E e \in Slots :
     /\ tmr[e].pc = "run"
     /\ neigh[e].timer
     /\ neigh[e].nud_state \in NUD_IN_TIMER

\* C35: for every linked entry whose handler is not running the timer is
\* pending if and only if nud_state is a timer state (INCOMPLETE, REACHABLE,
\* DELAY, PROBE).
C35_TimerFollowsState ==
  \A e \in Linked :
     (neigh[e].dead = 0 /\ tmr[e].pc = "idle")
        => (neigh[e].timer <=> neigh[e].nud_state \in NUD_IN_TIMER)

\* a linked entry has been put into INCOMPLETE by neigh_update
C35_Witness ==
  \E p \in Updaters :
     /\ ctx[p].pc = "idle"
     /\ ctx[p].ref \in Linked
     /\ ctx[p].rc = 0
     /\ neigh[ctx[p].ref].nud_state = NUD_INCOMPLETE
     /\ neigh[ctx[p].ref].updated = 0
     /\ neigh[ctx[p].ref].probes = 0

\* a loop that hands the packets of e's queue over is between two packets:
\* neigh_update's output loop or the handler's error_report loop
DrainInProgress(e) ==
  \/ tmr[e].pc = "report"
  \/ \E p \in Procs : ctx[p].pc = "update_output" /\ ctx[p].ref = e

\* C36: for every entry, when no drain loop is in progress, the pending queue
\* is non-empty only if nud_state is INCOMPLETE: every path out of INCOMPLETE
\* leaves the queue empty.
C36_QueueOnlyIncomplete ==
  \A e \in Slots :
     (neigh[e].alloc /\ ~DrainInProgress(e) /\ neigh[e].arp_queue # <<>>)
        => neigh[e].nud_state = NUD_INCOMPLETE

\* an INCOMPLETE entry with a packet queued, held by a caller that can
\* update it
C36_Witness ==
  \E p \in Procs :
     /\ ctx[p].pc = "idle"
     /\ ctx[p].ref # NULL
     /\ neigh[ctx[p].ref].nud_state = NUD_INCOMPLETE
     /\ neigh[ctx[p].ref].arp_queue # <<>>
     /\ ~DrainInProgress(ctx[p].ref)

\* the call proposes, for a valid entry on a device with addresses, an
\* address other than the cached one, without OVERRIDE and outside the
\* WEAK_OVERRIDE-on-connected case: neigh_update discards it
Discarded(n, lladdr, new, flags) ==
  /\ Permitted(n, flags)
  /\ new \in NUD_VALID
  /\ n.nud_state \in NUD_VALID
  /\ addr_len(n.dev) # 0
  /\ lladdr # NULL
  /\ lladdr # n.ha
  /\ NEIGH_UPDATE_F_OVERRIDE \notin flags
  /\ ~(NEIGH_UPDATE_F_WEAK_OVERRIDE \in flags /\ n.nud_state \in NUD_CONNECTED)

\* C37: a neigh_update that is discarded returns 0 and leaves the whole
\* entry as it was: state, address, confirmed and updated, router flag, timer
\* and queue.
C37_DiscardKeepsEntry ==
  [][\A p \in Updaters, lladdr \in UpdateAddrs, new \in UpdateStates, flags \in UpdateFlags :
        LET e == ctx[p].ref
        IN  (neigh_update(p, lladdr, new, flags) /\ Discarded(neigh[e], lladdr, new, flags))
               => /\ ctx'[p].rc = 0
                  /\ neigh'[e] = neigh[e]]_vars

\* a valid entry with an address cached, updated some time ago, held by a
\* caller that can propose another address
C37_Witness ==
  \E p \in Updaters :
     /\ ctx[p].pc = "idle"
     /\ ctx[p].ref # NULL
     /\ neigh[ctx[p].ref].nud_state = NUD_STALE
     /\ neigh[ctx[p].ref].ha = MaxUpdateAddr
     /\ neigh[ctx[p].ref].updated < jiffies

(***************************************************************************)
(* SpecIfdown: devices going down while the table holds entries and the    *)
(* proxy queue holds packets of several devices.                           *)
(***************************************************************************)
IfdownDevs == 1..MaxIfdownDevs

NextIfdown ==
  \/ \E p \in Updaters, k \in Keys, d \in IfdownDevs : neigh_create(p, k, d, TRUE, 0, 0)
  \/ \E p \in Updaters : neigh_create_link(p)
  \/ \E p \in Updaters : neigh_put(p)
  \/ \E p \in Updaters, d \in IfdownDevs, rnd \in 0..MaxRandom : pneigh_enqueue(p, d, rnd)
  \/ \E p \in Updaters : pneigh_enqueue_locked(p)
  \/ proxy_timer_expire
  \/ \E up \in SUBSET IfdownDevs : neigh_proxy_process(up)
  \/ \E d \in IfdownDevs : neigh_ifdown(d)
  \/ Tick(MaxJiffies)

SpecIfdown == Init /\ [][NextIfdown]_vars

\* the packets on the proxy queue q that belong to other devices than dev
OthersQueued(q, dev) == SeqFilter(q, {x \in Range(q) : x.dev # dev})

\* the neighbour entries of the other devices stay linked and unchanged
OtherEntriesKept(dev) ==
  \A e \in Slots :
     (neigh[e].alloc /\ neigh[e].dev # dev)
        => /\ neigh'[e] = neigh[e]
           /\ e \in Linked => e \in Linked'

\* C38: neigh_ifdown(tbl, D) touches only what belongs to D: the neighbour
\* entries and the queued proxy packets of every other device stay linked,
\* queued and unchanged, and the proxy timer stays armed for them.
C38_IfdownOnlyDevice ==
  [][\A dev \in IfdownDevs :
        neigh_ifdown(dev)
           => /\ OtherEntriesKept(dev)
              /\ OthersQueued(tbl'.proxy_queue, dev) = OthersQueued(tbl.proxy_queue, dev)
              /\ (OthersQueued(tbl.proxy_queue, dev) # <<>> /\ tbl.proxy_timer.pending)
                    => /\ tbl'.proxy_timer.pending
                       /\ tbl'.proxy_timer.expires = tbl.proxy_timer.expires]_vars

\* entries of two devices are linked and a packet of each device waits on
\* the proxy queue
C38_Witness ==
  /\ \A d \in IfdownDevs : \E e \in Linked : neigh[e].dev = d
  /\ \A d \in IfdownDevs : \E x \in Range(tbl.proxy_queue) : x.dev = d
  /\ tbl.proxy_timer.pending

(***************************************************************************)
(* SpecCount: concurrent neigh_create calls with the increment of          *)
(* tbl->entries in its two halves, against releases and neigh_ifdown.      *)
(***************************************************************************)
Creators == 1..MaxCreators

NextCount ==
  \/ \E p \in Creators, k \in Keys, d \in Devs : neigh_alloc_load(p, k, d)
  \/ \E p \in Creators : neigh_alloc_store(p)
  \/ \E p \in Creators : neigh_create_link(p)
  \/ \E p \in Creators : neigh_put(p)
  \/ \E d \in Devs : neigh_ifdown(d)
  \/ Tick(MaxJiffies)

SpecCount == Init /\ [][NextCount]_vars

\* the entries neigh_alloc has handed out and neigh_destroy has not freed
Allocated ==
  {e \in Slots : neigh[e].alloc /\ \A p \in Procs : ~(ctx[p].pc = "entries_store" /\ ctx[p].n = e)}

\* C39: tbl->entries always equals the number of entries allocated by
\* neigh_alloc and not yet freed by neigh_destroy.
C39_EntriesCounted == tbl.entries = Cardinality(Allocated)

\* two callers are inside neigh_alloc, each having read the counter
C39_Witness ==
  \E p, q \in Creators :
     /\ p # q
     /\ ctx[p].pc = "entries_store"
     /\ ctx[q].pc = "entries_store"

(***************************************************************************)
(* SpecLock: the lock operations of the cache's functions, in the order    *)
(* the code performs them, run by concurrent contexts.  The data is left   *)
(* out: every slot stands for an entry on the hash chains, a scan visits   *)
(* all of them.  A context is at operation ctx[p].i of the path ctx[p].pc, *)
(* working on entry ctx[p].n; a callback of the path re-enters resolution  *)
(* for entry ctx[p].ref.                                                   *)
(***************************************************************************)
LockCtxs == 1..MaxLockCtxs

\* tbl->lock; the lock of entry e (n->lock) is e
TblLock == 0

LockOp(op, l) == <<[op |-> op, lock |-> l]>>

\* the loop over the chains: n->lock is taken and dropped for every entry
RECURSIVE LockEach(_, _, _)
LockEach(e, lock, unlock) ==
  IF e > MaxEntries THEN <<>>
  ELSE LockOp(lock, e) \o LockOp(unlock, e) \o LockEach(e + 1, lock, unlock)

event_send_locks(e) == LockOp("write_lock", e) \o LockOp("write_unlock", e)

\* neigh_resolve_output on an entry e of a device with a header cache
resolve_output_locks(e) ==
  event_send_locks(e) \o LockOp("write_lock", e) \o LockOp("write_unlock", e)

\* a drain that calls n1->output(skb) with neigh->lock held
update_drain_locked(e, c) == resolve_output_locks(c)

\* the body of neigh_update's loop over arp_queue: the lock is dropped
\* around n1->output(skb), which is neigh_resolve_output
update_drain_locks(e, c) ==
  LockOp("write_unlock", e) \o resolve_output_locks(c) \o LockOp("write_lock", e)

\* the entries of chain h, entry e being on chain e % (NEIGH_HASHMASK + 1)
RECURSIVE LockChain(_, _, _, _)
LockChain(h, e, lock, unlock) ==
  IF e > MaxEntries THEN <<>>
  ELSE (IF e % (NEIGH_HASHMASK + 1) = h THEN LockOp(lock, e) \o LockOp(unlock, e) ELSE <<>>)
         \o LockChain(h, e + 1, lock, unlock)

\* a scan that takes and drops tbl->lock for every chain
RECURSIVE LockBuckets(_, _, _)
LockBuckets(h, lock, unlock) ==
  IF h > NEIGH_HASHMASK THEN <<>>
  ELSE LockOp(lock, TblLock) \o LockChain(h, 1, lock, unlock) \o LockOp(unlock, TblLock)
         \o LockBuckets(h + 1, lock, unlock)

forced_gc_locks == LockBuckets(0, "write_lock", "write_unlock")

\* the paths through the functions
LockPaths ==
  {"neigh_create", "neigh_create_gc", "neigh_lookup", "neigh_update", "neigh_update_drain",
   "__neigh_event_send", "neigh_timer_handler", "neigh_timer_handler_report",
   "neigh_timer_handler_solicit", "neigh_forced_gc", "neigh_periodic_timer",
   "neigh_ifdown", "neigh_changeaddr", "neigh_dump_table", "neigh_resolve_output"}

\* the paths that work on one entry, and the ones that make a callback
EntryPaths ==
  {"neigh_update", "neigh_update_drain", "__neigh_event_send", "neigh_timer_handler",
   "neigh_timer_handler_report", "neigh_timer_handler_solicit", "neigh_resolve_output"}

CallbackPaths ==
  {"neigh_update_drain", "neigh_timer_handler_report", "neigh_timer_handler_solicit"}

\* the lock operations of a path, on entry e, its callback re-entering for c
LockOps(path, e, c) ==
  CASE path = "neigh_lookup" ->
         LockOp("read_lock", TblLock) \o LockOp("read_unlock", TblLock)
    [] path = "neigh_create" ->
         LockOp("write_lock", TblLock) \o LockOp("write_unlock", TblLock)
    [] path = "neigh_create_gc" ->
         forced_gc_locks \o LockOp("write_lock", TblLock) \o LockOp("write_unlock", TblLock)
    [] path = "neigh_forced_gc" -> forced_gc_locks
    [] path = "neigh_periodic_timer" ->
         LockOp("write_lock", TblLock) \o LockEach(1, "write_lock", "write_unlock")
           \o LockOp("write_unlock", TblLock)
    [] path = "neigh_ifdown" ->
         LockOp("write_lock", TblLock) \o LockEach(1, "write_lock", "write_unlock")
           \o LockOp("write_unlock", TblLock)
    [] path = "neigh_changeaddr" ->
         LockOp("write_lock", TblLock) \o LockEach(1, "write_lock", "write_unlock")
           \o LockOp("write_unlock", TblLock)
    [] path = "neigh_dump_table" ->
         LockBuckets(0, "read_lock", "read_unlock")
    [] path = "__neigh_event_send" -> event_send_locks(e)
    [] path = "neigh_resolve_output" -> resolve_output_locks(e)
    [] path = "neigh_update" -> LockOp("write_lock", e) \o LockOp("write_unlock", e)
    [] path = "neigh_update_drain" ->
         LockOp("write_lock", e) \o update_drain_locks(e, c) \o LockOp("write_unlock", e)
    [] path = "neigh_timer_handler" -> LockOp("write_lock", e) \o LockOp("write_unlock", e)
    [] path = "neigh_timer_handler_report" ->
         LockOp("write_lock", e) \o LockOp("write_unlock", e) \o resolve_output_locks(c)
           \o LockOp("write_lock", e) \o LockOp("write_unlock", e)
    [] path = "neigh_timer_handler_solicit" ->
         LockOp("write_lock", e) \o LockOp("write_unlock", e) \o resolve_output_locks(c)

InLockPath(p) == ctx[p].pc \in LockPaths

OpsOf(p) == LockOps(ctx[p].pc, ctx[p].n, ctx[p].ref)

\* the locks held after the first k operations, in the order taken
RECURSIVE HeldAfter(_, _)
HeldAfter(ops, k) ==
  IF k = 0 THEN <<>>
  ELSE LET h == HeldAfter(ops, k - 1)
           o == ops[k]
       IN  IF o.op \in {"write_unlock", "read_unlock"}
           THEN SelectSeq(h, LAMBDA x : x.lock # o.lock)
           ELSE Append(h, o)

Held(p) == IF InLockPath(p) THEN HeldAfter(OpsOf(p), ctx[p].i - 1) ELSE <<>>

\* the operation a context is about to perform
AtOp(p) == InLockPath(p) /\ ctx[p].i <= Len(OpsOf(p))

NextOp(p) == OpsOf(p)[ctx[p].i]

\* a writer waits for every holder, a reader for a writer
Granted(o) ==
  \A q \in LockCtxs : \A k \in 1..Len(Held(q)) :
     Held(q)[k].lock = o.lock => (o.op = "read_lock" /\ Held(q)[k].op = "read_lock")

\* a context enters one of the functions
lock_enter(p, path, e, c) ==
  /\ ctx[p].pc = "idle"
  /\ (e # NULL) = (path \in EntryPaths)
  /\ (c # NULL) = (path \in CallbackPaths)
  /\ ctx' = [ctx EXCEPT ![p] = [IdleCtx EXCEPT !.pc = path, !.n = e, !.ref = c, !.i = 1]]
  /\ UNCHANGED <<jiffies, tbl, neigh, tmr, net>>

\* write_lock, write_lock_bh, read_lock, read_lock_bh
rw_lock(p) ==
  /\ AtOp(p)
  /\ NextOp(p).op \in {"write_lock", "read_lock"}
  /\ Granted(NextOp(p))
  /\ ctx' = [ctx EXCEPT ![p].i = @ + 1]
  /\ UNCHANGED <<jiffies, tbl, neigh, tmr, net>>

\* write_unlock, write_unlock_bh, read_unlock, read_unlock_bh
rw_unlock(p) ==
  /\ AtOp(p)
  /\ NextOp(p).op \in {"write_unlock", "read_unlock"}
  /\ ctx' = [ctx EXCEPT ![p].i = @ + 1]
  /\ UNCHANGED <<jiffies, tbl, neigh, tmr, net>>

\* the function returns
lock_return(p) ==
  /\ InLockPath(p)
  /\ ctx[p].i > Len(OpsOf(p))
  /\ ctx' = [ctx EXCEPT ![p] = IdleCtx]
  /\ UNCHANGED <<jiffies, tbl, neigh, tmr, net>>

NextLock ==
  \/ \E p \in LockCtxs, path \in LockPaths,
        e \in Slots \cup {NULL}, c \in Slots \cup {NULL} : lock_enter(p, path, e, c)
  \/ \E p \in LockCtxs : rw_lock(p)
  \/ \E p \in LockCtxs : rw_unlock(p)
  \/ \E p \in LockCtxs : lock_return(p)

SpecLock == Init /\ [][NextLock]_vars

\* p is about to take a lock
Requests(p) == AtOp(p) /\ NextOp(p).op \in {"write_lock", "read_lock"}

\* a context holding both locks took the table lock first
TableLockFirst(p) ==
  \A j, k \in 1..Len(Held(p)) :
     (Held(p)[j].lock = TblLock /\ Held(p)[k].lock # TblLock) => j < k

\* a context in a function can go on, or a context it waits for can
SomeoneRuns ==
  (\E p \in LockCtxs : InLockPath(p)) =>
     \E p \in LockCtxs : InLockPath(p) /\ (Requests(p) => Granted(NextOp(p)))

\* C40: no interleaving of the functions deadlocks: a context that holds both
\* locks took the table lock before the entry lock, no context requests the
\* table lock while it holds an entry lock, no context requests a lock it
\* already holds (callbacks re-entering resolution included), and some
\* context in a function can always take its next step.
C40_LockOrder ==
  /\ \A p \in LockCtxs : TableLockFirst(p)
  /\ \A p \in LockCtxs :
       Requests(p) =>
         /\ NextOp(p).lock = TblLock => Held(p) = <<>>
         /\ \A k \in 1..Len(Held(p)) : Held(p)[k].lock # NextOp(p).lock
  /\ SomeoneRuns

\* a scan holds the table lock and the lock of an entry while the callback of
\* another context re-enters resolution for that entry and waits for its lock
C40_Witness ==
  \E p, q \in LockCtxs :
     /\ Len(Held(p)) = 2
     /\ ctx[p].pc = "neigh_ifdown"
     /\ ctx[q].pc \in CallbackPaths
     /\ ctx[q].i > 2
     /\ Requests(q)
     /\ NextOp(q).lock = Held(p)[2].lock
     /\ ~Granted(NextOp(q))
====
